---- MODULE Spec2Model ----
(***************************************************************************)
(* A model of the portfolio site's scripts.  The repository holds several  *)
(* separate programs, each of which runs in its own JavaScript realm and   *)
(* therefore gets its own specification over the shared variable list:     *)
(*                                                                         *)
(*   SpecApp      js/modules/main.mjs        PortfolioApp (ES modules)     *)
(*   SpecBuild    build.js                   PortfolioBuildTool (Node)     *)
(*   SpecSW       build.js (generated sw.js) the service worker            *)
(*   SpecScript   script.js                  the single-file page script   *)
(*   SpecLegacy   js/*.js                    the global singleton managers *)
(*   SpecEdu      education manager          hover-delay document preview  *)
(*   SpecA11y     js/accessibility.js        persisted preferences         *)
(*   SpecSkills   js/skills.js, skills.mjs   highlightSkills               *)
(*                                                                         *)
(* An async function is a process: the code between two awaits is one      *)
(* atomic step, and any other runnable step may be scheduled at an await.  *)
(***************************************************************************)
EXTENDS Integers, Sequences, FiniteSets, TLC

\* ------------------------------------------------------------------ bounds
\* What happens to the app beyond its own auto-initialisation, counted together:
\* calls by a page script, browser events delivered, module init() rejections.
MaxDisturbances == 2

\* --------------------------------------------------------------- variables
VARIABLES
    \* PortfolioApp (main.mjs)
    initialized, isMobile, config, modules, innerWidth, env, ipc, iidx,
    dpc, dpos, regAtStart, destroyedBy, destroyThrew, resizeListeners,
    resizePending, visListeners, moduleInits, globalEventsRuns, dispatched,
    visRuns, used, dtcCount, dtcPending, sinceDestroy, initLog,
    \* PortfolioBuildTool (build.js)
    bpc, exitCode, successReported, threwIn, dist, srcFiles, fsFaulty,
    \* the page script (script.js)
    scPage, scLoaded, scMenuActive, scHamburgerActive, scScrollY,
    scNavbarSolid, scUncaught,
    \* the generated service worker (build.js, sw.js)
    swPhase, swCaches, swOrigin, swOriginHas, swLast, swNetRequests,
    swFetches,
    \* AccessibilityManager preferences (js/accessibility.js)
    lsHighContrast, lsReducedMotion, bodyHighContrast, bodyReducedMotion,
    prefersReducedMotion, a11ySession, a11yInitialized, a11yFresh,
    \* highlightSkills of both SkillsManagers (js/skills.js, js/modules/skills.mjs)
    skItems, skOtherHighlighted, skTerm, skLegacy, skModule,
    \* EducationManager hover preview (education manager)
    eduPointer, eduTimers, eduCurrentTimeout, eduNextId, eduNow,
    eduEnteredAt, eduLeft, eduPreviews, eduHoverSets, eduMobileNow,
    eduReinits,
    \* EducationManager overlays (education manager)
    ovPage, ovDocShow, ovInfoShow, ovFrameSrc, ovLastUrl, ovOverflow,
    ovClearTimers, ovInfoTitle,
    \* debounce (main.mjs, utils)
    dbKind, dbNow, dbTimeout, dbTimers, dbNextId, dbCalls, dbRuns,
    \* TooltipManager positioning (tooltips)
    ttCase, ttStyle, ttShown,
    \* AccessibilityManager module (js/modules/accessibility.mjs)
    amDoc, amAnnouncer, amText, amLive, amTimers, amHistory,
    \* progress bar animations (js/modules/animations.mjs, js/modules/skills.mjs)
    pbPage, pbWidth, pbSkillAnimation, pbRaf, pbTimers, pbObserved,
    pbCrossings, pbClasses,
    \* LazyLoader module loading (js/lazy-loader.js)
    ldQueue, ldScript, ldAsked, ldCalls, ldResolved, ldLoaded, ldTotal,
    \* the global singleton managers (js/*.js)
    mgrInitialized, mgrSetupRuns, lazyObserver, lazyPage, legacyWidth,
    legacyIsMobile, legacyResizeListeners, legacyCalls,
    \* touch handling (js/mobile.js, App)
    tcApp, tcMobile, tcNow, tcStartTime, tcStartPosition, tcTouch, tcEnded,
    tcClicks,
    \* education row clicks (education manager)
    rcRows, rcListeners, rcMobile, rcSetups, rcClicked, rcOpened,
    \* keyboard activation (accessibility, lazy-loader, skills)
    kbStack, kbInitialized, kbPresses, kbLast,
    \* focus trap (accessibility.mjs, js/accessibility.js)
    ftImpl, ftNull, ftListeners, ftActive, ftContainer, ftFirst, ftLast,
    ftFocus, ftKeys, ftErrors,
    \* AnimationManager observers (animations.mjs)
    obPage, obCurrent, obReplaced, obHidden, obResizes,
    \* skill value tooltip (skills.mjs, js/skills.js)
    svNow, svVisible, svTimers, svLastClick, svClicks

appVars == <<initialized, isMobile, config, modules, innerWidth, env, ipc,
             iidx, dpc, dpos, regAtStart, destroyedBy, destroyThrew,
             resizeListeners, resizePending, visListeners, moduleInits,
             globalEventsRuns, dispatched, visRuns, used, dtcCount,
             dtcPending, sinceDestroy, initLog>>
buildVars == <<bpc, exitCode, successReported, threwIn, dist, srcFiles,
               fsFaulty>>
scriptVars == <<scPage, scLoaded, scMenuActive, scHamburgerActive,
                scScrollY, scNavbarSolid, scUncaught>>
swVars == <<swPhase, swCaches, swOrigin, swOriginHas, swLast,
            swNetRequests, swFetches>>
a11yVars == <<lsHighContrast, lsReducedMotion, bodyHighContrast,
              bodyReducedMotion, prefersReducedMotion, a11ySession,
              a11yInitialized, a11yFresh>>
skillsVars == <<skItems, skOtherHighlighted, skTerm, skLegacy, skModule>>
eduVars == <<eduPointer, eduTimers, eduCurrentTimeout, eduNextId, eduNow,
             eduEnteredAt, eduLeft, eduPreviews, eduHoverSets,
             eduMobileNow, eduReinits>>
overlayVars == <<ovPage, ovDocShow, ovInfoShow, ovFrameSrc, ovLastUrl,
                 ovOverflow, ovClearTimers, ovInfoTitle>>
debounceVars == <<dbKind, dbNow, dbTimeout, dbTimers, dbNextId, dbCalls,
                  dbRuns>>
tooltipVars == <<ttCase, ttStyle, ttShown>>
aModVars == <<amDoc, amAnnouncer, amText, amLive, amTimers, amHistory>>
barVars == <<pbPage, pbWidth, pbSkillAnimation, pbRaf, pbTimers,
             pbObserved, pbCrossings, pbClasses>>
loaderVars == <<ldQueue, ldScript, ldAsked, ldCalls, ldResolved, ldLoaded,
                ldTotal>>
legacyVars == <<mgrInitialized, mgrSetupRuns, lazyObserver, lazyPage,
                legacyWidth, legacyIsMobile, legacyResizeListeners,
                legacyCalls>>
touchVars == <<tcApp, tcMobile, tcNow, tcStartTime, tcStartPosition,
               tcTouch, tcEnded, tcClicks>>
rowsVars == <<rcRows, rcListeners, rcMobile, rcSetups, rcClicked, rcOpened>>
keysVars == <<kbStack, kbInitialized, kbPresses, kbLast>>
trapVars == <<ftImpl, ftNull, ftListeners, ftActive, ftContainer, ftFirst,
              ftLast, ftFocus, ftKeys, ftErrors>>
obsVars == <<obPage, obCurrent, obReplaced, obHidden, obResizes>>
tipVars == <<svNow, svVisible, svTimers, svLastClick, svClicks>>

vars == <<appVars, buildVars, scriptVars, swVars, a11yVars, skillsVars, eduVars, overlayVars, debounceVars, tooltipVars, aModVars, barVars, loaderVars, legacyVars, touchVars, rowsVars, keysVars, trapVars, obsVars, tipVars>>

\* what a step of one program leaves alone: the other programs
OnlyApp == UNCHANGED <<buildVars, scriptVars, swVars, a11yVars, skillsVars,
                       eduVars, overlayVars, debounceVars, tooltipVars,
                       aModVars, barVars, loaderVars, legacyVars,
                       touchVars, rowsVars, keysVars, trapVars, obsVars,
                       tipVars>>
OnlyBuild == UNCHANGED <<appVars, scriptVars, swVars, a11yVars, skillsVars,
                         eduVars, overlayVars, debounceVars, tooltipVars,
                         aModVars, barVars, loaderVars, legacyVars,
                         touchVars, rowsVars, keysVars, trapVars, obsVars,
                         tipVars>>
OnlyScript == UNCHANGED <<appVars, buildVars, swVars, a11yVars, skillsVars,
                          eduVars, overlayVars, debounceVars, tooltipVars,
                          aModVars, barVars, loaderVars, legacyVars,
                          touchVars, rowsVars, keysVars, trapVars, obsVars,
                          tipVars>>
OnlySW == UNCHANGED <<appVars, buildVars, scriptVars, a11yVars, skillsVars,
                      eduVars, overlayVars, debounceVars, tooltipVars,
                      aModVars, barVars, loaderVars, legacyVars, touchVars,
                      rowsVars, keysVars, trapVars, obsVars, tipVars>>
OnlyA11y == UNCHANGED <<appVars, buildVars, scriptVars, swVars, skillsVars,
                        eduVars, overlayVars, debounceVars, tooltipVars,
                        aModVars, barVars, loaderVars, legacyVars,
                        touchVars, rowsVars, keysVars, trapVars, obsVars,
                        tipVars>>
OnlySkills == UNCHANGED <<appVars, buildVars, scriptVars, swVars, a11yVars,
                          eduVars, overlayVars, debounceVars, tooltipVars,
                          aModVars, barVars, loaderVars, legacyVars,
                          touchVars, rowsVars, keysVars, trapVars, obsVars,
                          tipVars>>
OnlyEdu == UNCHANGED <<appVars, buildVars, scriptVars, swVars, a11yVars,
                       skillsVars, overlayVars, debounceVars, tooltipVars,
                       aModVars, barVars, loaderVars, legacyVars,
                       touchVars, rowsVars, keysVars, trapVars, obsVars,
                       tipVars>>
OnlyOverlay == UNCHANGED <<appVars, buildVars, scriptVars, swVars,
                           a11yVars, skillsVars, eduVars, debounceVars,
                           tooltipVars, aModVars, barVars, loaderVars,
                           legacyVars, touchVars, rowsVars, keysVars,
                           trapVars, obsVars, tipVars>>
OnlyDebounce == UNCHANGED <<appVars, buildVars, scriptVars, swVars,
                            a11yVars, skillsVars, eduVars, overlayVars,
                            tooltipVars, aModVars, barVars, loaderVars,
                            legacyVars, touchVars, rowsVars, keysVars,
                            trapVars, obsVars, tipVars>>
OnlyTooltip == UNCHANGED <<appVars, buildVars, scriptVars, swVars,
                           a11yVars, skillsVars, eduVars, overlayVars,
                           debounceVars, aModVars, barVars, loaderVars,
                           legacyVars, touchVars, rowsVars, keysVars,
                           trapVars, obsVars, tipVars>>
OnlyAMod == UNCHANGED <<appVars, buildVars, scriptVars, swVars, a11yVars,
                        skillsVars, eduVars, overlayVars, debounceVars,
                        tooltipVars, barVars, loaderVars, legacyVars,
                        touchVars, rowsVars, keysVars, trapVars, obsVars,
                        tipVars>>
OnlyBar == UNCHANGED <<appVars, buildVars, scriptVars, swVars, a11yVars,
                       skillsVars, eduVars, overlayVars, debounceVars,
                       tooltipVars, aModVars, loaderVars, legacyVars,
                       touchVars, rowsVars, keysVars, trapVars, obsVars,
                       tipVars>>
OnlyLoader == UNCHANGED <<appVars, buildVars, scriptVars, swVars, a11yVars,
                          skillsVars, eduVars, overlayVars, debounceVars,
                          tooltipVars, aModVars, barVars, legacyVars,
                          touchVars, rowsVars, keysVars, trapVars, obsVars,
                          tipVars>>
OnlyLegacy == UNCHANGED <<appVars, buildVars, scriptVars, swVars, a11yVars,
                          skillsVars, eduVars, overlayVars, debounceVars,
                          tooltipVars, aModVars, barVars, loaderVars,
                          touchVars, rowsVars, keysVars, trapVars, obsVars,
                          tipVars>>
OnlyTouch == UNCHANGED <<appVars, buildVars, scriptVars, swVars, a11yVars,
                         skillsVars, eduVars, overlayVars, debounceVars,
                         tooltipVars, aModVars, barVars, loaderVars,
                         legacyVars, rowsVars, keysVars, trapVars, obsVars,
                         tipVars>>
OnlyRows == UNCHANGED <<appVars, buildVars, scriptVars, swVars, a11yVars,
                        skillsVars, eduVars, overlayVars, debounceVars,
                        tooltipVars, aModVars, barVars, loaderVars,
                        legacyVars, touchVars, keysVars, trapVars, obsVars,
                        tipVars>>
OnlyKeys == UNCHANGED <<appVars, buildVars, scriptVars, swVars, a11yVars,
                        skillsVars, eduVars, overlayVars, debounceVars,
                        tooltipVars, aModVars, barVars, loaderVars,
                        legacyVars, touchVars, rowsVars, trapVars, obsVars,
                        tipVars>>
OnlyTrap == UNCHANGED <<appVars, buildVars, scriptVars, swVars, a11yVars,
                        skillsVars, eduVars, overlayVars, debounceVars,
                        tooltipVars, aModVars, barVars, loaderVars,
                        legacyVars, touchVars, rowsVars, keysVars, obsVars,
                        tipVars>>
OnlyObs == UNCHANGED <<appVars, buildVars, scriptVars, swVars, a11yVars,
                       skillsVars, eduVars, overlayVars, debounceVars,
                       tooltipVars, aModVars, barVars, loaderVars,
                       legacyVars, touchVars, rowsVars, keysVars, trapVars,
                       tipVars>>
OnlyTip == UNCHANGED <<appVars, buildVars, scriptVars, swVars, a11yVars,
                       skillsVars, eduVars, overlayVars, debounceVars,
                       tooltipVars, aModVars, barVars, loaderVars,
                       legacyVars, touchVars, rowsVars, keysVars, trapVars,
                       obsVars>>

\* ================================================================ PortfolioApp
\* The callers of init(): the module's own auto-initialisation (main.mjs:490-495)
\* and a page script using window.PortfolioApp (main.mjs:498).  One caller of
\* destroy().
InitCalls == {"auto", "script"}
DestroyCalls == {"script"}

\* main.mjs:100-143, in declaration order
moduleConfigs ==
    << [name |-> "accessibility", priority |-> 1],
       [name |-> "animations",    priority |-> 2],
       [name |-> "ai-showcase",   priority |-> 2],
       [name |-> "skills",        priority |-> 3],
       [name |-> "education",     priority |-> 3],
       [name |-> "tooltips",      priority |-> 4],
       [name |-> "mobile",        priority |-> 2] >>

\* Array.prototype.sort is stable: insertion of each element after every
\* element whose priority is not greater.
RECURSIVE InsertByPriority(_, _)
InsertByPriority(s, e) ==
    IF s = <<>> THEN <<e>>
    ELSE IF Head(s).priority <= e.priority
         THEN <<Head(s)>> \o InsertByPriority(Tail(s), e)
         ELSE <<e>> \o s

RECURSIVE SortByPriority(_)
SortByPriority(s) ==
    IF s = <<>> THEN <<>>
    ELSE InsertByPriority(SortByPriority(SubSeq(s, 1, Len(s) - 1)), s[Len(s)])

declaredConfigs == moduleConfigs
sortedConfigs == SortByPriority(moduleConfigs)

ModuleNames == {moduleConfigs[i].name : i \in DOMAIN moduleConfigs}
                   \cup {"performance", "lazyLoader"}

EventNames == {"portfolio:initialized", "portfolio:resize", "portfolio:destroyed"}

\* The page and browser the app is loaded in: what detectDeviceCapabilities
\* (main.mjs:70-96) and the condition() functions read.  The window is narrow
\* or wide.
Environments ==
    [hasIntersectionObserver : BOOLEAN, prefersReducedMotion : BOOLEAN,
     hasTouch : BOOLEAN, skillControls : BOOLEAN, educationRows : BOOLEAN]

\* a plain page (no skill controls, no education rows), a user who prefers
\* reduced motion, a browser without IntersectionObserver and without touch
PlainPage ==
    [hasIntersectionObserver |-> FALSE, prefersReducedMotion |-> TRUE,
     hasTouch |-> FALSE, skillControls |-> FALSE, educationRows |-> FALSE]

Widths == {480, 1024}
MobileBreakpoint == 768

\* init(config = {}): the overrides a caller passes, as <<key, value>> pairs
ConfigArgs == { {}, {<<"performance", FALSE>>, <<"lazyLoading", FALSE>>} }

defaultConfig == [debug |-> FALSE, performance |-> TRUE,
                  lazyLoading |-> TRUE, animations |-> TRUE]

\* { ...this.config, ...config }
MergeConfig(cfg, arg) ==
    [k \in DOMAIN cfg |->
        IF \E p \in arg : p[1] = k THEN (CHOOSE p \in arg : p[1] = k)[2] ELSE cfg[k]]

\* window.innerWidth <= 768
detectMobile(w) == w <= MobileBreakpoint

\* the condition() of each moduleConfigs entry
condition(name, cfg, mob) ==
    CASE name = "accessibility" -> TRUE
      [] name = "animations"    -> env.hasIntersectionObserver /\ cfg.animations
      [] name = "ai-showcase"   -> cfg.animations /\ ~env.prefersReducedMotion
      [] name = "skills"        -> env.skillControls
      [] name = "education"     -> env.educationRows
      [] name = "tooltips"      -> TRUE
      [] name = "mobile"        -> mob \/ env.hasTouch

\* the next entry of the sorted list after index i whose condition holds, 0 if none
NextEligible(i, cfg, mob) ==
    LET later == {j \in DOMAIN sortedConfigs :
                     j > i /\ condition(sortedConfigs[j].name, cfg, mob)}
    IN IF later = {} THEN 0 ELSE CHOOSE j \in later : \A k \in later : j <= k

\* A module instance is known by its name and the call that constructed it.
Instance(name, owner) == [name |-> name, owner |-> owner]

\* Map.prototype.has / set / delete on the insertion-ordered modules map
MapHas(m, n) == \E i \in DOMAIN m : m[i].name = n
MapSet(m, n, inst) ==
    IF MapHas(m, n)
    THEN [i \in DOMAIN m |-> IF m[i].name = n THEN [name |-> n, inst |-> inst] ELSE m[i]]
    ELSE Append(m, [name |-> n, inst |-> inst])
MapDelete(m, n) == SelectSeq(m, LAMBDA e : e.name # n)

Count(s, x) == Cardinality({i \in DOMAIN s : s[i] = x})

\* initLog[c] records, for the init() call c, each module init() it calls
\* ("start") and how the awaited promise settles ("ok", "fail").
Logged(log, c, kind, n) == [log EXCEPT ![c] = Append(@, <<kind, n>>)]

\* main.mjs:150-156: modules.set is reached only when the awaited init() did
\* not reject; the catch block logs and the loop continues
RegisterAlways(m, n, inst, ok) == MapSet(m, n, inst)
RegisterAfterInit(m, n, inst, ok) == IF ok THEN MapSet(m, n, inst) ELSE m
Bump(f, k) == [f EXCEPT ![k] = @ + 1]

InitInFlight(c) == ipc[c] \in {"mod", "modRet", "perf", "perfRet", "lazy", "lazyRet"}
DestroyInFlight == \E d \in DestroyCalls : dpc[d] = "await"

\* The state after `new PortfolioApp()` (main.mjs:14-27) on a page; u is the
\* part of the budget of disturbances that the run does without.
AppInitWith(page, u) ==
    /\ initialized = FALSE
    /\ isMobile = FALSE
    /\ config = defaultConfig
    /\ modules = <<>>
    /\ innerWidth \in Widths
    /\ env = page
    /\ ipc = [c \in InitCalls |-> "idle"]
    /\ iidx = [c \in InitCalls |-> 0]
    /\ dpc = [d \in DestroyCalls |-> "idle"]
    /\ dpos = [d \in DestroyCalls |-> 0]
    /\ regAtStart = [d \in DestroyCalls |-> <<>>]
    /\ destroyedBy = [d \in DestroyCalls |-> <<>>]
    /\ destroyThrew = [d \in DestroyCalls |-> FALSE]
    /\ resizeListeners = {}
    /\ resizePending = {}
    /\ visListeners = {}
    /\ moduleInits = [n \in ModuleNames |-> 0]
    /\ globalEventsRuns = 0
    /\ dispatched = [e \in EventNames |-> 0]
    /\ visRuns = 0
    /\ used = u
    /\ dtcCount = 0
    /\ dtcPending = {}
    /\ sinceDestroy = FALSE
    /\ initLog = [c \in InitCalls |-> <<>>]

AppInit == \E page \in Environments : AppInitWith(page, 0)

\* ---- init(), main.mjs:30-67 -------------------------------------------

\* The last lines of init(): this.initialized = true; dispatch 'portfolio:initialized'
InitFinish(c) ==
    /\ initialized' = TRUE
    /\ dispatched' = Bump(dispatched, "portfolio:initialized")
    /\ ipc' = [ipc EXCEPT ![c] = "done"]

\* initializeLazyLoading() up to its await, or the end of init()
InitLazyOrFinish(c) ==
    IF config.lazyLoading
    THEN /\ moduleInits' = Bump(moduleInits, "lazyLoader")
         /\ initLog' = Logged(initLog, c, "start", "lazyLoader")
         /\ ipc' = [ipc EXCEPT ![c] = "lazy"]
         /\ UNCHANGED <<initialized, dispatched>>
    ELSE /\ InitFinish(c)
         /\ UNCHANGED <<moduleInits, initLog>>

\* A call of init(): the guard, the config merge, detectDeviceCapabilities and
\* initializeModules up to its first await.
InitCall(c, arg) ==
    /\ ipc[c] = "idle"
    /\ c = "auto" => arg = {}
    /\ c # "auto" => used < MaxDisturbances
    /\ used' = IF c = "auto" THEN used ELSE used + 1
    /\ IF initialized
       THEN /\ ipc' = [ipc EXCEPT ![c] = "returned"]
            /\ UNCHANGED <<config, isMobile, iidx, moduleInits, sinceDestroy, initLog>>
       ELSE LET cfg == MergeConfig(config, arg)
                mob == detectMobile(innerWidth)
                j == NextEligible(0, cfg, mob)
            IN /\ config' = cfg
               /\ isMobile' = mob
               /\ sinceDestroy' = FALSE
               /\ iidx' = [iidx EXCEPT ![c] = j]
               /\ moduleInits' = Bump(moduleInits, sortedConfigs[j].name)
               /\ initLog' = Logged(initLog, c, "start", sortedConfigs[j].name)
               /\ ipc' = [ipc EXCEPT ![c] = "mod"]
    /\ UNCHANGED <<initialized, modules, innerWidth, env, dpc, dpos, regAtStart,
                   destroyedBy, destroyThrew, resizeListeners, resizePending,
                   visListeners, globalEventsRuns, dispatched, visRuns, dtcCount, dtcPending>>
    /\ OnlyApp

\* initializeModules resumes from `await config.instance.init()`: the module is
\* registered (or its failure logged) and the loop goes on to the next eligible
\* module, whose init() it calls.
InitModuleResume(c, ok) ==
    /\ ipc[c] = "mod"
    /\ ok \/ used < MaxDisturbances
    /\ used' = IF ok THEN used ELSE used + 1
    /\ LET n == sortedConfigs[iidx[c]].name
           j == NextEligible(iidx[c], config, isMobile)
           settled == Logged(initLog, c, IF ok THEN "ok" ELSE "fail", n)
       IN /\ modules' = RegisterAfterInit(modules, n, Instance(n, <<"init", c>>), ok)
          /\ IF j # 0
             THEN /\ iidx' = [iidx EXCEPT ![c] = j]
                  /\ moduleInits' = Bump(moduleInits, sortedConfigs[j].name)
                  /\ initLog' = Logged(settled, c, "start", sortedConfigs[j].name)
                  /\ UNCHANGED ipc
             ELSE /\ ipc' = [ipc EXCEPT ![c] = "modRet"]
                  /\ initLog' = settled
                  /\ UNCHANGED <<iidx, moduleInits>>
    /\ UNCHANGED <<initialized, isMobile, config, innerWidth, env, dpc, dpos,
                   regAtStart, destroyedBy, destroyThrew, resizeListeners,
                   resizePending, visListeners, globalEventsRuns, dispatched,
                   visRuns, dtcCount,
                   dtcPending, sinceDestroy>>
    /\ OnlyApp

\* init() resumes from `await this.initializeModules()`: setupGlobalEvents,
\* then initializePerformanceMonitoring up to its await (if enabled).
InitAfterModules(c) ==
    /\ ipc[c] = "modRet"
    /\ resizeListeners' = resizeListeners \cup {<<"debouncedResize", c>>}
    /\ visListeners' = visListeners \cup {<<"visibilityArrow", c>>}
    /\ globalEventsRuns' = globalEventsRuns + 1
    /\ IF config.performance
       THEN /\ moduleInits' = Bump(moduleInits, "performance")
            /\ initLog' = Logged(initLog, c, "start", "performance")
            /\ ipc' = [ipc EXCEPT ![c] = "perf"]
            /\ UNCHANGED <<initialized, dispatched>>
       ELSE InitLazyOrFinish(c)
    /\ UNCHANGED <<isMobile, config, modules, innerWidth, env, iidx, dpc, dpos,
                   regAtStart, destroyedBy, destroyThrew, resizePending,
                   visRuns, used, dtcCount,
                   dtcPending, sinceDestroy>>
    /\ OnlyApp

\* initializePerformanceMonitoring / initializeLazyLoading resume from their await
InitExtraResume(c, ok) ==
    /\ ipc[c] \in {"perf", "lazy"}
    /\ ok \/ used < MaxDisturbances
    /\ used' = IF ok THEN used ELSE used + 1
    /\ LET n == IF ipc[c] = "perf" THEN "performance" ELSE "lazyLoader"
       IN /\ modules' = RegisterAfterInit(modules, n, Instance(n, <<"init", c>>), ok)
          /\ initLog' = Logged(initLog, c, IF ok THEN "ok" ELSE "fail", n)
    /\ ipc' = [ipc EXCEPT ![c] = IF ipc[c] = "perf" THEN "perfRet" ELSE "lazyRet"]
    /\ UNCHANGED <<initialized, isMobile, config, innerWidth, env, iidx, dpc, dpos,
                   regAtStart, destroyedBy, destroyThrew, resizeListeners,
                   resizePending, visListeners, moduleInits, globalEventsRuns,
                   dispatched, visRuns, dtcCount, dtcPending, sinceDestroy>>
    /\ OnlyApp

\* init() resumes from `await this.initializePerformanceMonitoring()`
InitAfterPerf(c) ==
    /\ ipc[c] = "perfRet"
    /\ InitLazyOrFinish(c)
    /\ UNCHANGED <<isMobile, config, modules, innerWidth, env, iidx, dpc, dpos,
                   regAtStart, destroyedBy, destroyThrew, resizeListeners,
                   resizePending, visListeners, globalEventsRuns,
                   visRuns, used, dtcCount,
                   dtcPending, sinceDestroy>>
    /\ OnlyApp

\* init() resumes from `await this.initializeLazyLoading()`
InitAfterLazy(c) ==
    /\ ipc[c] = "lazyRet"
    /\ InitFinish(c)
    /\ UNCHANGED initLog
    /\ UNCHANGED <<isMobile, config, modules, innerWidth, env, iidx, dpc, dpos,
                   regAtStart, destroyedBy, destroyThrew, resizeListeners,
                   resizePending, visListeners, moduleInits, globalEventsRuns,
                   visRuns, used, dtcCount,
                   dtcPending, sinceDestroy>>
    /\ OnlyApp

\* init() alone, with no event and no destroy() in between
NextAppInit ==
    \/ \E c \in InitCalls, arg \in ConfigArgs : InitCall(c, arg)
    \/ \E c \in InitCalls, ok \in BOOLEAN : InitModuleResume(c, ok)
    \/ \E c \in InitCalls : InitAfterModules(c)
    \/ \E c \in InitCalls, ok \in BOOLEAN : InitExtraResume(c, ok)
    \/ \E c \in InitCalls : InitAfterPerf(c)
    \/ \E c \in InitCalls : InitAfterLazy(c)

\* ---- destroy(), main.mjs:459-484 --------------------------------------

\* typeof module.destroy === 'function': every module class has a destroy method
hasDestroyMethod(name) == name \in ModuleNames

\* the functions destroy() hands to removeEventListener
handleResizeFn == <<"handleResize", 0>>
handleVisibilityChangeFn == <<"handleVisibilityChange", 0>>

\* removeEventListener removes the listener that is the very function given
RemoveListener(listeners, fn) == listeners \ {fn}

\* the next entry of the live map after position pos that has a destroy method
NextDestroyable(pos) ==
    LET later == {j \in DOMAIN modules : j > pos /\ hasDestroyMethod(modules[j].name)}
    IN IF later = {} THEN 0 ELSE CHOOSE j \in later : \A k \in later : j <= k

\* One turn of destroy()'s loop from position pos: call destroy() on the next
\* module and await it, or, past the last entry, run the rest of destroy().
DestroyStep(d, pos, threw) ==
    LET j == NextDestroyable(pos)
    IN IF j # 0
       THEN /\ destroyedBy' = [destroyedBy EXCEPT ![d] = Append(@, modules[j].inst)]
            /\ destroyThrew' = [destroyThrew EXCEPT ![d] = @ \/ threw]
            /\ dpos' = [dpos EXCEPT ![d] = j]
            /\ dpc' = [dpc EXCEPT ![d] = "await"]
            /\ UNCHANGED <<modules, resizeListeners, visListeners, initialized,
                           dispatched, sinceDestroy>>
       ELSE /\ modules' = <<>>
            /\ resizeListeners' = RemoveListener(resizeListeners, handleResizeFn)
            /\ visListeners' = RemoveListener(visListeners, handleVisibilityChangeFn)
            /\ initialized' = FALSE
            /\ dispatched' = Bump(dispatched, "portfolio:destroyed")
            /\ sinceDestroy' = TRUE
            /\ dpc' = [dpc EXCEPT ![d] = "done"]
            /\ UNCHANGED <<destroyedBy, destroyThrew, dpos>>

\* A call of destroy(), up to its first await
DestroyCall(d, threw) ==
    /\ dpc[d] = "idle"
    /\ ~DestroyInFlight
    /\ UNCHANGED initLog
    /\ used < MaxDisturbances
    /\ used' = used + 1
    /\ regAtStart' = [regAtStart EXCEPT ![d] = [i \in DOMAIN modules |-> modules[i].inst]]
    /\ DestroyStep(d, 0, threw)
    /\ UNCHANGED <<isMobile, config, innerWidth, env, ipc, iidx, resizePending,
                   moduleInits, globalEventsRuns, visRuns,
                   dtcCount, dtcPending>>
    /\ OnlyApp

\* destroy() resumes from `await module.destroy()`
DestroyResume(d, threw) ==
    /\ dpc[d] = "await"
    /\ DestroyStep(d, dpos[d], threw)
    /\ UNCHANGED initLog
    /\ UNCHANGED <<isMobile, config, innerWidth, env, ipc, iidx, regAtStart,
                   resizePending, moduleInits, globalEventsRuns, visRuns, used, dtcCount, dtcPending>>
    /\ OnlyApp

\* ---- global events, main.mjs:184-261 ----------------------------------
\* Browser events are tasks of their own: module destroy() methods are
\* synchronous, so no event is delivered between the awaits of destroy().

\* window 'resize': every registered debounced wrapper restarts its timer
ResizeEvent(w) ==
    /\ used < MaxDisturbances
    /\ ~DestroyInFlight
    /\ w # innerWidth
    /\ UNCHANGED initLog
    /\ innerWidth' = w
    /\ used' = used + 1
    /\ resizePending' = resizePending \cup resizeListeners
    /\ UNCHANGED <<initialized, isMobile, config, modules, env, ipc, iidx, dpc,
                   dpos, regAtStart, destroyedBy, destroyThrew, resizeListeners,
                   visListeners, moduleInits, globalEventsRuns, dispatched,
                   visRuns, dtcCount, dtcPending,
                   sinceDestroy>>
    /\ OnlyApp

\* a debounce timer expires: handleResize(), with handleDeviceTypeChange up to
\* its await
ResizeTimerFire(l) ==
    /\ l \in resizePending
    /\ UNCHANGED initLog
    /\ ~DestroyInFlight
    /\ resizePending' = resizePending \ {l}
    /\ LET mob == detectMobile(innerWidth)
       IN /\ isMobile' = mob
          /\ IF isMobile # mob /\ mob /\ ~MapHas(modules, "mobile")
             THEN /\ dtcCount' = dtcCount + 1
                  /\ dtcPending' = dtcPending \cup {dtcCount + 1}
                  /\ UNCHANGED modules
             ELSE IF isMobile # mob /\ ~mob /\ MapHas(modules, "mobile")
             THEN /\ modules' = MapDelete(modules, "mobile")
                  /\ UNCHANGED <<dtcCount, dtcPending>>
             ELSE UNCHANGED <<modules, dtcCount, dtcPending>>
    /\ dispatched' = Bump(dispatched, "portfolio:resize")
    /\ UNCHANGED <<initialized, config, innerWidth, env, ipc, iidx, dpc, dpos,
                   regAtStart, destroyedBy, destroyThrew, resizeListeners,
                   visListeners, moduleInits, globalEventsRuns, visRuns, used,
                   sinceDestroy>>
    /\ OnlyApp

\* handleDeviceTypeChange resumes from `await mobileManager.init()`
DeviceTypeChangeResume(k, ok) ==
    /\ k \in dtcPending
    /\ UNCHANGED initLog
    /\ ok \/ used < MaxDisturbances
    /\ used' = IF ok THEN used ELSE used + 1
    /\ dtcPending' = dtcPending \ {k}
    /\ modules' = RegisterAfterInit(modules, "mobile", Instance("mobile", <<"dtc", k>>), ok)
    /\ UNCHANGED <<initialized, isMobile, config, innerWidth, env, ipc, iidx, dpc,
                   dpos, regAtStart, destroyedBy, destroyThrew, resizeListeners,
                   resizePending, visListeners, moduleInits, globalEventsRuns,
                   dispatched, visRuns, dtcCount, sinceDestroy>>
    /\ OnlyApp

\* document 'visibilitychange': every registered listener runs handleVisibilityChange
VisibilityChange ==
    /\ used < MaxDisturbances
    /\ ~DestroyInFlight
    /\ used' = used + 1
    /\ visRuns' = visRuns + Cardinality(visListeners)
    /\ UNCHANGED initLog
    /\ UNCHANGED <<initialized, isMobile, config, modules, innerWidth, env, ipc,
                   iidx, dpc, dpos, regAtStart, destroyedBy, destroyThrew,
                   resizeListeners, resizePending, visListeners, moduleInits,
                   globalEventsRuns, dispatched,                    dtcCount, dtcPending, sinceDestroy>>
    /\ OnlyApp

NextApp ==
    \/ \E c \in InitCalls, arg \in ConfigArgs : InitCall(c, arg)
    \/ \E c \in InitCalls, ok \in BOOLEAN : InitModuleResume(c, ok)
    \/ \E c \in InitCalls : InitAfterModules(c)
    \/ \E c \in InitCalls, ok \in BOOLEAN : InitExtraResume(c, ok)
    \/ \E c \in InitCalls : InitAfterPerf(c)
    \/ \E c \in InitCalls : InitAfterLazy(c)
    \/ \E d \in DestroyCalls, threw \in BOOLEAN : DestroyCall(d, threw)
    \/ \E d \in DestroyCalls, threw \in BOOLEAN : DestroyResume(d, threw)
    \/ \E w \in Widths : ResizeEvent(w)
    \/ \E l \in resizePending : ResizeTimerFire(l)
    \/ \E k \in dtcPending, ok \in BOOLEAN : DeviceTypeChangeResume(k, ok)
    \/ VisibilityChange

\* ========================================================== PortfolioBuildTool
\* build.js:15-31
cssFiles == <<"css/variables.css", "css/base.css", "css/layout.css",
              "css/components.css", "css/sections.css", "css/overlays.css",
              "css/animations.css">>
jsFiles == <<"js/main.js", "js/skills.js", "js/education.js", "js/tooltips.js",
             "js/mobile.js", "js/utils.js">>

Range(s) == {s[i] : i \in DOMAIN s}

\* The source tree the build runs in.  "assets" is the assets directory; the
\* files in it are listed in the order readdir returns them.
assetFiles == <<"Etiosa_Raymond_CV.pdf", "IMG_0930.jpeg">>
AssetPath(f) == IF f = "Etiosa_Raymond_CV.pdf" THEN "assets/Etiosa_Raymond_CV.pdf"
                ELSE "assets/IMG_0930.jpeg"
CssTrees == {Range(cssFiles), Range(cssFiles) \ {"css/overlays.css"}, {}}
JsTrees == {Range(jsFiles), {}}
AssetTrees == {{}, {"assets"}} \cup
              {{"assets"} \cup {AssetPath(f) : f \in F} : F \in SUBSET Range(assetFiles)}
SourceTrees ==
    {c \cup j \cup a \cup o :
        c \in CssTrees, j \in JsTrees, a \in AssetTrees,
        o \in SUBSET {"index_optimized.html", "bio.html"}}

\* what an earlier build may have left in dist
StaleDists == {{}, {"index.html", "bio.html"}}

BuildSteps == <<"createBuildDirectory", "optimizeCSS", "optimizeJS", "optimizeHTML",
                "copyAssets", "generateServiceWorker", "generateManifest">>

BuildInit ==
    /\ bpc = "createBuildDirectory"
    /\ exitCode = -1
    /\ successReported = FALSE
    /\ threwIn = {}
    /\ dist \in StaleDists
    /\ srcFiles \in SourceTrees
    /\ fsFaulty \in BOOLEAN

\* the catch block of build(): console.error, process.exit(1)
BuildFailed(step) ==
    /\ threwIn' = threwIn \cup {step}
    /\ exitCode' = 1
    /\ bpc' = "exited"
    /\ UNCHANGED successReported

\* a file operation fails only on a faulty file system
MayFail(ok) == ok \/ fsFaulty

\* createBuildDirectory: a failure of access or rm is swallowed, a failure of
\* mkdir propagates.  (access failing because dist is absent is the expected
\* probe and is not counted as a failed step.)
CreateBuildDirectory(rmOK, mkdirOK) ==
    /\ bpc = "createBuildDirectory"
    /\ MayFail(rmOK) /\ MayFail(mkdirOK)
    /\ dist = {} => rmOK
    /\ dist' = IF rmOK THEN {} ELSE dist
    /\ IF mkdirOK
       THEN /\ bpc' = "optimizeCSS"
            /\ threwIn' = IF rmOK THEN threwIn ELSE threwIn \cup {"createBuildDirectory"}
            /\ UNCHANGED <<exitCode, successReported>>
       ELSE BuildFailed("createBuildDirectory")
    /\ UNCHANGED <<srcFiles, fsFaulty>>
    /\ OnlyBuild

\* optimizeCSS / optimizeJS: a file that cannot be read is skipped with a
\* warning; a failure to write the bundle propagates.
OptimizeBundle(step, files, out, next, writeOK) ==
    /\ bpc = step
    /\ MayFail(writeOK)
    /\ IF writeOK
       THEN /\ dist' = dist \cup {out}
            /\ bpc' = next
            /\ threwIn' = IF Range(files) \subseteq srcFiles THEN threwIn
                          ELSE threwIn \cup {step}
            /\ UNCHANGED <<exitCode, successReported>>
       ELSE /\ BuildFailed(step)
            /\ UNCHANGED dist
    /\ UNCHANGED <<srcFiles, fsFaulty>>
    /\ OnlyBuild

OptimizeCSS(writeOK) ==
    OptimizeBundle("optimizeCSS", cssFiles, "css/main.min.css", "optimizeJS", writeOK)

OptimizeJS(writeOK) ==
    OptimizeBundle("optimizeJS", jsFiles, "js/main.min.js", "optimizeHTML", writeOK)

\* optimizeHTML: the whole body is inside try/catch, the catch only logs
OptimizeHTML(writeOK) ==
    /\ bpc = "optimizeHTML"
    /\ MayFail(writeOK)
    /\ IF "index_optimized.html" \in srcFiles /\ writeOK
       THEN /\ dist' = dist \cup {"index.html"}
            /\ UNCHANGED threwIn
       ELSE /\ threwIn' = threwIn \cup {"optimizeHTML"}
            /\ UNCHANGED dist
    /\ bpc' = "copyAssets"
    /\ UNCHANGED <<exitCode, successReported, srcFiles, fsFaulty>>
    /\ OnlyBuild

\* copyAssets: readdir, copy each file, then bio.html in a try of its own; the
\* outer catch only logs.  failAt is the index of the asset whose copy fails
\* (0 for none).
CopyAssets(failAt, bioOK) ==
    /\ bpc = "copyAssets"
    /\ LET present == SelectSeq(assetFiles, LAMBDA f : AssetPath(f) \in srcFiles)
           copied(n) == {AssetPath(present[i]) : i \in 1..n}
       IN /\ failAt \in 0..Len(present)
          /\ MayFail(failAt = 0) /\ MayFail(bioOK)
          /\ IF "assets" \notin srcFiles
             THEN /\ failAt = 0 /\ bioOK
                  /\ threwIn' = threwIn \cup {"copyAssets"}
                  /\ UNCHANGED dist
             ELSE IF failAt # 0
             THEN /\ bioOK
                  /\ threwIn' = threwIn \cup {"copyAssets"}
                  /\ dist' = dist \cup copied(failAt - 1)
             ELSE IF "bio.html" \in srcFiles /\ bioOK
             THEN /\ dist' = dist \cup copied(Len(present)) \cup {"bio.html"}
                  /\ UNCHANGED threwIn
             ELSE /\ "bio.html" \notin srcFiles => bioOK
                  /\ dist' = dist \cup copied(Len(present))
                  /\ threwIn' = threwIn \cup {"copyAssets"}
    /\ bpc' = "generateServiceWorker"
    /\ UNCHANGED <<exitCode, successReported, srcFiles, fsFaulty>>
    /\ OnlyBuild

GenerateServiceWorker(writeOK) ==
    /\ bpc = "generateServiceWorker"
    /\ MayFail(writeOK)
    /\ IF writeOK
       THEN /\ dist' = dist \cup {"sw.js"}
            /\ bpc' = "generateManifest"
            /\ UNCHANGED <<exitCode, successReported, threwIn>>
       ELSE /\ BuildFailed("generateServiceWorker")
            /\ UNCHANGED dist
    /\ UNCHANGED <<srcFiles, fsFaulty>>
    /\ OnlyBuild

\* generateManifest, then the last lines of build()'s try block
GenerateManifest(writeOK) ==
    /\ bpc = "generateManifest"
    /\ MayFail(writeOK)
    /\ IF writeOK
       THEN /\ dist' = dist \cup {"manifest.json"}
            /\ successReported' = TRUE
            /\ exitCode' = 0
            /\ bpc' = "done"
            /\ UNCHANGED threwIn
       ELSE /\ BuildFailed("generateManifest")
            /\ UNCHANGED dist
    /\ UNCHANGED <<srcFiles, fsFaulty>>
    /\ OnlyBuild

\* generateServiceWorker, build.js:193-200: the list the generated worker
\* hands to cache.addAll
generatedUrlsToCache == <<"/", "/css/main.min.css", "/js/main.min.js",
                          "/assets/IMG_0930.jpeg", "/assets/Etiosa_Raymond_CV.pdf",
                          "/bio.html">>

\* the file of dist a static host serves for a URL of that list: the
\* directory index for "/", the path below dist otherwise
ServedFile(u) ==
    CASE u = "/" -> "index.html"
      [] u = "/css/main.min.css" -> "css/main.min.css"
      [] u = "/js/main.min.js" -> "js/main.min.js"
      [] u = "/assets/IMG_0930.jpeg" -> "assets/IMG_0930.jpeg"
      [] u = "/assets/Etiosa_Raymond_CV.pdf" -> "assets/Etiosa_Raymond_CV.pdf"
      [] u = "/bio.html" -> "bio.html"

NextBuild ==
    \/ \E rmOK \in BOOLEAN, mkdirOK \in BOOLEAN : CreateBuildDirectory(rmOK, mkdirOK)
    \/ \E ok \in BOOLEAN : OptimizeCSS(ok)
    \/ \E ok \in BOOLEAN : OptimizeJS(ok)
    \/ \E ok \in BOOLEAN : OptimizeHTML(ok)
    \/ \E failAt \in 0..Len(assetFiles), bioOK \in BOOLEAN : CopyAssets(failAt, bioOK)
    \/ \E ok \in BOOLEAN : GenerateServiceWorker(ok)
    \/ \E ok \in BOOLEAN : GenerateManifest(ok)

\* ================================================================ script.js
\* The page: which of the elements the navigation code queries are present.
ScriptPages == [navbar : BOOLEAN, hamburger : BOOLEAN, navMenu : BOOLEAN,
                navLinks : BOOLEAN]

ScrollPositions == {0, 150}
ScrollThreshold == 100
Keys == {"Escape", "a"}

ScriptInit ==
    /\ scPage \in ScriptPages
    /\ scLoaded = FALSE
    /\ scMenuActive = FALSE
    /\ scHamburgerActive = FALSE
    /\ scScrollY = 0
    /\ scNavbarSolid = FALSE
    /\ scUncaught = {}

\* 'DOMContentLoaded': initNavigation and addKeyboardShortcuts register their
\* listeners; the queries are made, nothing is dereferenced yet.
DOMContentLoaded ==
    /\ ~scLoaded
    /\ scLoaded' = TRUE
    /\ UNCHANGED <<scPage, scMenuActive, scHamburgerActive, scScrollY,
                   scNavbarSolid, scUncaught>>
    /\ OnlyScript

\* navMenu.classList.remove('active'); hamburger.classList.remove('active'):
\* a null navMenu or hamburger is dereferenced, which throws a TypeError and
\* ends the handler there.
CloseMobileMenu(handler) ==
    IF ~scPage.navMenu
    THEN /\ scUncaught' = scUncaught \cup {handler}
         /\ UNCHANGED <<scMenuActive, scHamburgerActive>>
    ELSE /\ scMenuActive' = FALSE
         /\ IF ~scPage.hamburger
            THEN /\ scUncaught' = scUncaught \cup {handler}
                 /\ UNCHANGED scHamburgerActive
            ELSE /\ scHamburgerActive' = FALSE
                 /\ UNCHANGED scUncaught

\* window 'scroll': the navbar effect listener (the active-link listener only
\* walks node lists)
Scroll(y) ==
    /\ scLoaded
    /\ y # scScrollY
    /\ scScrollY' = y
    /\ IF scPage.navbar
       THEN /\ scNavbarSolid' = (y > ScrollThreshold)
            /\ UNCHANGED scUncaught
       ELSE /\ scUncaught' = scUncaught \cup {"scroll"}
            /\ UNCHANGED scNavbarSolid
    /\ UNCHANGED <<scPage, scLoaded, scMenuActive, scHamburgerActive>>
    /\ OnlyScript

\* 'click' on a .nav-link
NavLinkClick ==
    /\ scLoaded
    /\ scPage.navLinks
    /\ CloseMobileMenu("navLinkClick")
    /\ UNCHANGED <<scPage, scLoaded, scScrollY, scNavbarSolid>>
    /\ OnlyScript

\* 'click' on the hamburger (the listener is registered only if it exists)
HamburgerClick ==
    /\ scLoaded
    /\ scPage.hamburger
    /\ IF scPage.navMenu
       THEN /\ scMenuActive' = ~scMenuActive
            /\ scHamburgerActive' = ~scHamburgerActive
            /\ UNCHANGED scUncaught
       ELSE /\ scUncaught' = scUncaught \cup {"hamburgerClick"}
            /\ UNCHANGED <<scMenuActive, scHamburgerActive>>
    /\ UNCHANGED <<scPage, scLoaded, scScrollY, scNavbarSolid>>
    /\ OnlyScript

\* document 'keydown' without Alt
KeyDown(key) ==
    /\ scLoaded
    /\ IF key = "Escape"
       THEN CloseMobileMenu("keydown")
       ELSE UNCHANGED <<scMenuActive, scHamburgerActive, scUncaught>>
    /\ UNCHANGED <<scPage, scLoaded, scScrollY, scNavbarSolid>>
    /\ OnlyScript

NextScript ==
    \/ DOMContentLoaded
    \/ \E y \in ScrollPositions : Scroll(y)
    \/ NavLinkClick
    \/ HamburgerClick
    \/ \E key \in Keys : KeyDown(key)

\* ================================================================ legacy managers
Managers == {"App", "SkillsManager", "EducationManager", "TooltipManager",
             "MobileManager", "LazyLoader"}

\* init() and destroy() calls made on the managers, counted together
MaxLegacyCalls == 4

\* What LazyLoader finds: whether the browser has IntersectionObserver, and
\* whether the page holds lazy images (img[data-src], [data-bg]), a
\* .profile-image, and elements that trigger module loading.
LazyPages == [io : BOOLEAN, lazyImages : BOOLEAN, profileImage : BOOLEAN,
              triggers : BOOLEAN]

LegacyInit ==
    /\ mgrInitialized = [m \in Managers |-> FALSE]
    /\ mgrSetupRuns = [m \in Managers |-> 0]
    /\ lazyObserver = FALSE
    /\ lazyPage \in LazyPages
    /\ legacyWidth \in Widths
    /\ legacyIsMobile = FALSE
    /\ legacyResizeListeners = 0
    /\ legacyCalls = 0

\* The state of the managers' guards: st.init is the `initialized` flag of each
\* manager, st.runs the number of times its setup steps have run since it was
\* last destroyed.
MgrState == [init |-> mgrInitialized, runs |-> mgrSetupRuns]

\* init() of SkillsManager, EducationManager, TooltipManager, MobileManager:
\* `if (this.initialized) return;`, the setup steps, `this.initialized = true`
GuardedInit(st, m) ==
    IF st.init[m] THEN st
    ELSE [init |-> [st.init EXCEPT ![m] = TRUE],
          runs |-> [st.runs EXCEPT ![m] = @ + 1]]

\* destroy() of a manager: `this.initialized = false`
ManagerDestroy(st, m) ==
    [init |-> [st.init EXCEPT ![m] = FALSE],
     runs |-> [st.runs EXCEPT ![m] = 0]]

\* App.detectMobile
LegacyDetectMobile(w) == w <= MobileBreakpoint

\* App.initializeModules
InitializeModules(st, mob) ==
    LET s1 == GuardedInit(st, "SkillsManager")
        s2 == GuardedInit(s1, "EducationManager")
        s3 == GuardedInit(s2, "TooltipManager")
    IN IF mob THEN GuardedInit(s3, "MobileManager") ELSE s3

\* App.reinitializeModules
ReinitializeModules(st, mob) ==
    InitializeModules(
        ManagerDestroy(ManagerDestroy(st, "SkillsManager"), "EducationManager"), mob)

Called == /\ legacyCalls < MaxLegacyCalls
          /\ legacyCalls' = legacyCalls + 1

\* App.init()
LegacyAppInit ==
    /\ Called
    /\ IF mgrInitialized["App"]
       THEN UNCHANGED <<mgrInitialized, mgrSetupRuns, legacyIsMobile,
                        legacyResizeListeners>>
       ELSE LET mob == LegacyDetectMobile(legacyWidth)
                st == InitializeModules(MgrState, mob)
            IN /\ legacyIsMobile' = mob
               /\ mgrInitialized' = [st.init EXCEPT !["App"] = TRUE]
               /\ mgrSetupRuns' = [st.runs EXCEPT !["App"] = @ + 1]
               /\ legacyResizeListeners' = legacyResizeListeners + 1
    /\ UNCHANGED <<lazyObserver, lazyPage, legacyWidth>>
    /\ OnlyLegacy

\* init() of one of the four plain managers, called directly
ManagerInit(m) ==
    /\ m \in {"SkillsManager", "EducationManager", "TooltipManager", "MobileManager"}
    /\ Called
    /\ mgrInitialized' = GuardedInit(MgrState, m).init
    /\ mgrSetupRuns' = GuardedInit(MgrState, m).runs
    /\ UNCHANGED <<lazyObserver, lazyPage, legacyWidth, legacyIsMobile,
                   legacyResizeListeners>>
    /\ OnlyLegacy

\* LazyLoader.init().  Without IntersectionObserver setupIntersectionObserver
\* returns with this.observer still null, and the first `this.observer.observe`
\* that is reached throws a TypeError, which leaves init() before
\* `this.initialized = true`.
LazyLoaderInit ==
    /\ Called
    /\ IF mgrInitialized["LazyLoader"]
       THEN UNCHANGED <<mgrInitialized, mgrSetupRuns, lazyObserver, lazyPage>>
       ELSE LET observer == lazyPage.io
                throwsAtImages == lazyPage.lazyImages /\ ~observer
                throwsAtProfile == lazyPage.profileImage /\ ~observer
                throwsAtTriggers == lazyPage.triggers /\ ~observer
            IN /\ mgrSetupRuns' = [mgrSetupRuns EXCEPT !["LazyLoader"] = @ + 1]
               /\ lazyObserver' = observer
               /\ lazyPage' = IF ~throwsAtImages /\ lazyPage.profileImage
                              THEN [lazyPage EXCEPT !.lazyImages = TRUE]
                              ELSE lazyPage
               /\ mgrInitialized' =
                      [mgrInitialized EXCEPT !["LazyLoader"] =
                          ~(throwsAtImages \/ throwsAtProfile \/ throwsAtTriggers)]
    /\ UNCHANGED <<legacyWidth, legacyIsMobile, legacyResizeListeners>>
    /\ OnlyLegacy

\* destroy() of a manager that has one, called directly
LegacyDestroy(m) ==
    /\ m \in Managers \ {"App"}
    /\ Called
    /\ mgrInitialized' = ManagerDestroy(MgrState, m).init
    /\ mgrSetupRuns' = ManagerDestroy(MgrState, m).runs
    /\ lazyObserver' = IF m = "LazyLoader" THEN FALSE ELSE lazyObserver
    /\ UNCHANGED <<lazyPage, legacyWidth, legacyIsMobile, legacyResizeListeners>>
    /\ OnlyLegacy

\* window 'resize': App.handleResize, if App registered its listener
LegacyResize(w) ==
    /\ w # legacyWidth
    /\ legacyWidth' = w
    /\ IF legacyResizeListeners > 0
       THEN LET mob == LegacyDetectMobile(w)
                st == IF mob # legacyIsMobile
                      THEN ReinitializeModules(MgrState, mob) ELSE MgrState
            IN /\ legacyIsMobile' = mob
               /\ mgrInitialized' = st.init
               /\ mgrSetupRuns' = st.runs
       ELSE UNCHANGED <<legacyIsMobile, mgrInitialized, mgrSetupRuns>>
    /\ UNCHANGED <<lazyObserver, lazyPage, legacyResizeListeners, legacyCalls>>
    /\ OnlyLegacy

NextLegacy ==
    \/ LegacyAppInit
    \/ \E m \in Managers : ManagerInit(m)
    \/ LazyLoaderInit
    \/ \E m \in Managers : LegacyDestroy(m)
    \/ \E w \in Widths : LegacyResize(w)

\* ================================================================ EducationManager
\* Rows with a data-file attribute (document rows) and without (info rows)
DocRows == {"diploma", "transcript"}
InfoRows == {"school"}
Rows == DocRows \cup InfoRows

\* the delay given to setTimeout by the mouseenter listeners, in ms
HoverDelay == 500

\* time advances in steps of these sizes, up to MaxTime; at most MaxTimers
\* timers are ever started; the device type changes at most MaxReinits times
Ticks == {250, 500}
MaxTime == 1500
MaxTimers == 3
MaxReinits == 2

\* The state after EducationManager.init(): on a desktop-width window every row
\* has one set of hover listeners, on a mobile-width window none.
EduInit ==
    /\ eduPointer = "none"
    /\ eduTimers = {}
    /\ eduCurrentTimeout = 0
    /\ eduNextId = 1
    /\ eduNow = 0
    /\ eduEnteredAt = [r \in Rows |-> -1]
    /\ eduLeft = [r \in Rows |-> FALSE]
    /\ eduPreviews = {}
    /\ eduMobileNow \in BOOLEAN
    /\ eduHoverSets = IF eduMobileNow THEN 0 ELSE 1
    /\ eduReinits = 0

\* The timer state of the manager and the browser: the active timers, the
\* handle in this.currentTimeout (0 for null), the next handle setTimeout gives.
EduTimerState == [timers |-> eduTimers, current |-> eduCurrentTimeout,
                  nextId |-> eduNextId]

\* EducationManager.clearTimeout
EduClearTimeoutLeaky(st) == [st EXCEPT !.current = 0]
EduClearTimeout(st) ==
    IF st.current # 0
    THEN [st EXCEPT !.timers = {t \in @ : t.id # st.current}, !.current = 0]
    ELSE st

\* one mouseenter listener of a row: clearTimeout, then setTimeout(..., 500)
HoverStart(st, row) ==
    LET c == EduClearTimeout(st)
    IN [timers |-> c.timers \cup
                      {[id |-> c.nextId, row |-> row, due |-> eduNow + HoverDelay]},
        current |-> c.nextId,
        nextId |-> c.nextId + 1]

\* one mouseleave listener of a row: clearTimeout
HoverEnd(st, row) == EduClearTimeout(st)

\* the listeners of an event run one after the other, one for every set of
\* listeners attached to the row
RunListeners(event, st, row, n) ==
    LET after[k \in 0..n] ==
            IF k = 0 THEN st
            ELSE IF event = "mouseenter" THEN HoverStart(after[k - 1], row)
                 ELSE HoverEnd(after[k - 1], row)
    IN after[n]

SetTimerState(st) ==
    /\ eduTimers' = st.timers
    /\ eduCurrentTimeout' = st.current
    /\ eduNextId' = st.nextId

\* 'mouseenter' on a row: the pointer comes onto it from outside every row
MouseEnter(r) ==
    /\ eduPointer = "none"
    /\ eduNextId + eduHoverSets - 1 <= MaxTimers
    /\ eduPointer' = r
    /\ eduEnteredAt' = [eduEnteredAt EXCEPT ![r] = eduNow]
    /\ eduLeft' = [eduLeft EXCEPT ![r] = FALSE]
    /\ SetTimerState(RunListeners("mouseenter", EduTimerState, r, eduHoverSets))
    /\ UNCHANGED <<eduNow, eduPreviews, eduHoverSets, eduMobileNow, eduReinits>>
    /\ OnlyEdu

\* 'mouseleave' on the row the pointer is on
MouseLeave(r) ==
    /\ eduPointer = r
    /\ eduPointer' = "none"
    /\ eduLeft' = [eduLeft EXCEPT ![r] = TRUE]
    /\ SetTimerState(RunListeners("mouseleave", EduTimerState, r, eduHoverSets))
    /\ UNCHANGED <<eduNow, eduEnteredAt, eduPreviews, eduHoverSets, eduMobileNow,
                   eduReinits>>
    /\ OnlyEdu

\* An active timer whose delay has passed runs its callback, showDocumentPreview
\* for a document row and showEducationInfo for an info row; the call is logged
\* with what was true of the row at that moment.
TimerFire(t) ==
    /\ t \in eduTimers
    /\ t.due <= eduNow
    /\ eduTimers' = eduTimers \ {t}
    /\ eduPreviews' = eduPreviews \cup
           {[row |-> t.row, at |-> eduNow, entered |-> eduEnteredAt[t.row],
             left |-> eduLeft[t.row], pointer |-> eduPointer]}
    /\ UNCHANGED <<eduPointer, eduCurrentTimeout, eduNextId, eduNow, eduEnteredAt,
                   eduLeft, eduHoverSets, eduMobileNow, eduReinits>>
    /\ OnlyEdu

\* time passes
Tick(d) ==
    /\ eduNow + d <= MaxTime
    /\ eduNow' = eduNow + d
    /\ UNCHANGED <<eduPointer, eduTimers, eduCurrentTimeout, eduNextId,
                   eduEnteredAt, eduLeft, eduPreviews, eduHoverSets, eduMobileNow,
                   eduReinits>>
    /\ OnlyEdu

\* The window crosses the mobile breakpoint: destroy() (closeOverlays, which
\* clears the timeout; no listener is removed) and init() again, which attaches
\* one more set of hover listeners if the window is now desktop-width.
EduReinitialize ==
    /\ eduReinits < MaxReinits
    /\ eduReinits' = eduReinits + 1
    /\ eduMobileNow' = ~eduMobileNow
    /\ eduHoverSets' = IF eduMobileNow THEN eduHoverSets + 1 ELSE eduHoverSets
    /\ SetTimerState(EduClearTimeout(EduTimerState))
    /\ UNCHANGED <<eduPointer, eduNow, eduEnteredAt, eduLeft, eduPreviews>>
    /\ OnlyEdu

NextEdu ==
    \/ \E r \in Rows : MouseEnter(r)
    \/ \E r \in Rows : MouseLeave(r)
    \/ \E t \in eduTimers : TimerFire(t)
    \/ \E d \in Ticks : Tick(d)
    \/ EduReinitialize

\* ================================================================ service worker
CACHE_NAME == "etiosa-portfolio-v1"
urlsToCache == <<"/", "/css/main.min.css", "/js/main.min.js",
                 "/assets/IMG_0930.jpeg", "/assets/Etiosa_Raymond_CV.pdf",
                 "/bio.html">>

\* the caches of the origin: the worker's own and one left by an earlier worker
CacheNames == {"etiosa-portfolio-v0", CACHE_NAME}

\* what the origin serves; the requests pages make
OriginUrls == Range(urlsToCache) \cup {"/manifest.json"}
FetchUrls == {"/", "/bio.html", "/manifest.json"}

\* the site is deployed at most MaxVersion times; at most MaxFetches fetch
\* events are delivered
MaxVersion == 2
MaxFetches == 3

NoResponse == [url |-> "", source |-> "none", version |-> -1]

SWInit ==
    /\ swPhase = "parsed"
    /\ swCaches \in {[n \in CacheNames |-> {}],
                     [n \in CacheNames |->
                         IF n = CACHE_NAME THEN {}
                         ELSE {[url |-> "/", version |-> 0],
                               [url |-> "/manifest.json", version |-> 0]}]}
    /\ swOrigin = 1
    /\ swOriginHas \in {OriginUrls, OriginUrls \ {"/bio.html"}}
    /\ swLast = NoResponse
    /\ swNetRequests = 0
    /\ swFetches = 0

\* 'install': caches.open(CACHE_NAME).then(cache => cache.addAll(urlsToCache)).
\* addAll stores nothing and rejects if any URL fails to load, and the worker
\* is then discarded.
Install ==
    /\ swPhase = "parsed"
    /\ IF Range(urlsToCache) \subseteq swOriginHas
       THEN /\ swCaches' = [swCaches EXCEPT ![CACHE_NAME] =
                               {[url |-> u, version |-> swOrigin] : u \in Range(urlsToCache)}]
            /\ swPhase' = "installed"
       ELSE /\ swPhase' = "redundant"
            /\ UNCHANGED swCaches
    /\ UNCHANGED <<swOrigin, swOriginHas, swLast, swNetRequests, swFetches>>
    /\ OnlySW

\* 'activate': every cache whose name is not CACHE_NAME is deleted
Activate ==
    /\ swPhase = "installed"
    /\ swPhase' = "activated"
    /\ swCaches' = [n \in CacheNames |-> IF n # CACHE_NAME THEN {} ELSE swCaches[n]]
    /\ UNCHANGED <<swOrigin, swOriginHas, swLast, swNetRequests, swFetches>>
    /\ OnlySW

\* caches.match(request): the entries of any cache stored for the URL
CachesMatch(caches, u) == {e \in UNION {caches[n] : n \in CacheNames} : e.url = u}

\* fetch(request): what the network answers now (version -1: not found)
NetworkFetch(u) ==
    [url |-> u, source |-> "network",
     version |-> IF u \in swOriginHas THEN swOrigin ELSE -1]

\* the fetch handler's answer: `response || fetch(event.request)`
FetchResponseNetworkFirst(u) == {NetworkFetch(u)}
FetchResponse(u) ==
    IF CachesMatch(swCaches, u) # {}
    THEN {[url |-> u, source |-> "cache", version |-> e.version] :
             e \in CachesMatch(swCaches, u)}
    ELSE {NetworkFetch(u)}

\* a 'fetch' event of a page the active worker controls
FetchEvent(u) ==
    /\ swPhase = "activated"
    /\ swFetches < MaxFetches
    /\ swFetches' = swFetches + 1
    /\ \E r \in FetchResponse(u) :
          /\ swLast' = r
          /\ swNetRequests' = IF r.source = "network" THEN swNetRequests + 1
                              ELSE swNetRequests
    /\ UNCHANGED <<swPhase, swCaches, swOrigin, swOriginHas>>
    /\ OnlySW

\* the site is deployed again: the origin serves newer content
Deploy ==
    /\ swOrigin < MaxVersion
    /\ swOrigin' = swOrigin + 1
    /\ UNCHANGED <<swPhase, swCaches, swOriginHas, swLast, swNetRequests, swFetches>>
    /\ OnlySW

\* the browser evicts the origin's caches (storage pressure, cleared site data)
Evict ==
    /\ swCaches # [n \in CacheNames |-> {}]
    /\ swCaches' = [n \in CacheNames |-> {}]
    /\ UNCHANGED <<swPhase, swOrigin, swOriginHas, swLast, swNetRequests, swFetches>>
    /\ OnlySW

NextSW ==
    \/ Install
    \/ Activate
    \/ \E u \in FetchUrls : FetchEvent(u)
    \/ Deploy
    \/ Evict

\* ================================================================ AccessibilityManager
\* page loads in the life of one browser profile
MaxSessions == 3

\* localStorage.getItem of a key never set gives null
StoredValues == {"null", "true", "false"}

\* localStorage.setItem(key, flag): the boolean is stored as its string
ToStorageString(flag) == IF flag THEN "true" ELSE "false"

\* The first page load of a profile: nothing stored, body without the classes.
A11yInit ==
    /\ lsHighContrast = "null"
    /\ lsReducedMotion = "null"
    /\ bodyHighContrast = FALSE
    /\ bodyReducedMotion = FALSE
    /\ prefersReducedMotion \in BOOLEAN
    /\ a11ySession = 1
    /\ a11yInitialized = FALSE
    /\ a11yFresh = FALSE

\* localStorage.getItem(key) === 'true'
SavedPreferenceIgnored(stored) == FALSE
SavedPreference(stored) == stored = "true"

\* AccessibilityManager.init(): setupColorContrastMode and
\* setupReducedMotionSupport (the other setup steps touch neither class)
AccessibilityInit ==
    /\ ~a11yInitialized
    /\ a11yInitialized' = TRUE
    /\ a11yFresh' = TRUE
    /\ bodyHighContrast' = (bodyHighContrast \/ SavedPreference(lsHighContrast))
    /\ bodyReducedMotion' = (bodyReducedMotion \/ prefersReducedMotion
                                \/ SavedPreference(lsReducedMotion))
    /\ UNCHANGED <<lsHighContrast, lsReducedMotion, prefersReducedMotion, a11ySession>>
    /\ OnlyA11y

\* toggleHighContrast: classList.toggle, then setItem with the new state
ToggleHighContrast ==
    /\ a11yInitialized
    /\ bodyHighContrast' = ~bodyHighContrast
    /\ lsHighContrast' = ToStorageString(~bodyHighContrast)
    /\ a11yFresh' = FALSE
    /\ UNCHANGED <<lsReducedMotion, bodyReducedMotion, prefersReducedMotion,
                   a11ySession, a11yInitialized>>
    /\ OnlyA11y

\* toggleReducedMotion
ToggleReducedMotion ==
    /\ a11yInitialized
    /\ bodyReducedMotion' = ~bodyReducedMotion
    /\ lsReducedMotion' = ToStorageString(~bodyReducedMotion)
    /\ a11yFresh' = FALSE
    /\ UNCHANGED <<lsHighContrast, bodyHighContrast, prefersReducedMotion,
                   a11ySession, a11yInitialized>>
    /\ OnlyA11y

\* The page is closed and loaded again: a new document and new script objects;
\* localStorage is what the browser keeps.  The system preference may have changed.
PageLoad(prefers) ==
    /\ a11ySession < MaxSessions
    /\ a11ySession' = a11ySession + 1
    /\ bodyHighContrast' = FALSE
    /\ bodyReducedMotion' = FALSE
    /\ a11yInitialized' = FALSE
    /\ a11yFresh' = FALSE
    /\ prefersReducedMotion' = prefers
    /\ UNCHANGED <<lsHighContrast, lsReducedMotion>>
    /\ OnlyA11y

NextA11y ==
    \/ AccessibilityInit
    \/ ToggleHighContrast
    \/ ToggleReducedMotion
    \/ \E prefers \in BOOLEAN : PageLoad(prefers)

\* ================================================================ highlightSkills
\* Text is a sequence of characters.
ToLowerCase(s) ==
    [i \in DOMAIN s |->
        CASE s[i] = "G" -> "g" [] s[i] = "O" -> "o" [] s[i] = "S" -> "s"
          [] s[i] = "Q" -> "q" [] s[i] = "L" -> "l" [] OTHER -> s[i]]

\* String.prototype.includes
Includes(s, t) ==
    \E i \in 0..(Len(s) - Len(t)) : SubSeq(s, i + 1, i + Len(t)) = t

\* An item of the skills section: its class, its name element (class and
\* textContent) if it has one, its progress element (class and data-value,
\* "null" when the attribute is absent) if it has one, and whether it carries
\* 'highlighted' before the call.
ItemKinds == {"tool-item", "language-item"}
SkillNames == {<<>>, <<"G", "o">>}
SkillItems ==
    {[kind |-> k, nameClass |-> nc, text |-> t, progressClass |-> pc,
      dataValue |-> dv, highlighted |-> h] :
        k \in ItemKinds, nc \in {"none", "tool-name", "language-name"},
        t \in SkillNames, pc \in {"none", "skill-progress", "language-progress"},
        dv \in {"null", "", "90"}, h \in BOOLEAN}

\* the items a page holds after the first
OtherItems ==
    { <<>>,
      << [kind |-> "tool-item", nameClass |-> "tool-name", text |-> <<"S", "Q", "L">>,
          progressClass |-> "skill-progress", dataValue |-> "85", highlighted |-> TRUE] >>,
      << [kind |-> "language-item", nameClass |-> "language-name",
          text |-> <<"G", "o">>, progressClass |-> "language-progress",
          dataValue |-> "70", highlighted |-> FALSE] >> }

SkillPages ==
    {<<it>> \o rest : it \in {i \in SkillItems : i.nameClass = "none" => i.text = <<>>},
                      rest \in OtherItems}

SearchTerms == {<<>>, <<"g", "o">>, <<"G", "O">>, <<"q">>}

NotRun == [ran |-> FALSE, items |-> <<>>, other |-> FALSE]

SkillsInit ==
    /\ skItems \in SkillPages
    /\ skOtherHighlighted \in BOOLEAN
    /\ skTerm \in SearchTerms
    /\ skLegacy = NotRun
    /\ skModule = NotRun

\* js/skills.js highlightSkills, for one item: the first .tool-name or
\* .language-name inside it; `name?.includes(...)` is undefined without one
LegacyMatches(item, term) ==
    /\ item.nameClass # "none"
    /\ Includes(ToLowerCase(item.text), ToLowerCase(term))

\* skills.mjs getSkillData / getLanguageData: the item is listed if it has a
\* name element of its own kind with text, and a progress element of its own
\* kind with a non-empty data-value
Listed(item) ==
    /\ \/ /\ item.kind = "tool-item"
          /\ item.nameClass = "tool-name"
          /\ item.progressClass = "skill-progress"
       \/ /\ item.kind = "language-item"
          /\ item.nameClass = "language-name"
          /\ item.progressClass = "language-progress"
    /\ item.text # <<>>
    /\ item.dataValue \notin {"null", ""}

\* skills.mjs searchSkills, for one item
SearchSkillsCaseSensitive(item, term) ==
    Listed(item) /\ Includes(item.text, ToLowerCase(term))
SearchSkills(item, term) ==
    Listed(item) /\ Includes(ToLowerCase(item.text), ToLowerCase(term))

\* SkillsManager.highlightSkills of js/skills.js: each item gets or loses the
\* class; no other element is touched
LegacyHighlightSkills ==
    /\ ~skLegacy.ran
    /\ skLegacy' = [ran |-> TRUE,
                    items |-> [i \in DOMAIN skItems |-> LegacyMatches(skItems[i], skTerm)],
                    other |-> skOtherHighlighted]
    /\ UNCHANGED <<skItems, skOtherHighlighted, skTerm, skModule>>
    /\ OnlySkills

\* SkillsManager.highlightSkills of skills.mjs: clearHighlights removes the
\* class from every element of the document, then the matches get it
ModuleHighlightSkills ==
    /\ ~skModule.ran
    /\ skModule' = [ran |-> TRUE,
                    items |-> [i \in DOMAIN skItems |-> SearchSkills(skItems[i], skTerm)],
                    other |-> FALSE]
    /\ UNCHANGED <<skItems, skOtherHighlighted, skTerm, skLegacy>>
    /\ OnlySkills

NextSkills ==
    \/ LegacyHighlightSkills
    \/ ModuleHighlightSkills

\* ================================================================ education overlays
\* showDocumentPreview / hideDocumentPreview / showEducationInfo /
\* hideEducationInfo / closeOverlays of the EducationManager.  An overlay and
\* its backdrop get and lose 'show' together; the overlay stands for both.

\* hideDocumentPreview calls still waiting for their 300 ms timer
MaxClearTimers == 2

\* the data-file values of the document rows
FileUrls == {"diploma.pdf", "transcript.pdf"}

\* the .row-label texts of the rows without data-file
InfoTitles == {"School", "Exchange"}

\* which of #documentPreviewOverlay and #educationOverlay the page has
OverlayPages == [doc : BOOLEAN, info : BOOLEAN]

OverlayInit ==
    /\ ovPage \in OverlayPages
    /\ ovDocShow = FALSE
    /\ ovInfoShow = FALSE
    /\ ovFrameSrc = ""
    /\ ovLastUrl = ""
    /\ ovOverflow = ""
    /\ ovClearTimers = 0
    /\ ovInfoTitle = ""

\* the overlay state as a record, for the functions that closeOverlays chains
OverlayState == [docShow |-> ovDocShow, infoShow |-> ovInfoShow,
                 overflow |-> ovOverflow, clearTimers |-> ovClearTimers]

\* hideDocumentPreview: remove 'show', reset overflow, setTimeout(clear src, 300)
HideDocumentPreviewIn(st) ==
    IF ~ovPage.doc THEN st
    ELSE [st EXCEPT !.docShow = FALSE, !.overflow = "", !.clearTimers = @ + 1]

\* hideEducationInfo: remove 'show', reset overflow
HideEducationInfoIn(st) ==
    IF ~ovPage.info THEN st
    ELSE [st EXCEPT !.infoShow = FALSE, !.overflow = ""]

SetOverlayState(st) ==
    /\ ovDocShow' = st.docShow
    /\ ovInfoShow' = st.infoShow
    /\ ovOverflow' = st.overflow
    /\ ovClearTimers' = st.clearTimers

ShowDocumentPreview(fileUrl) ==
    /\ ovLastUrl' = fileUrl
    /\ IF ~ovPage.doc
       THEN UNCHANGED <<ovFrameSrc, ovDocShow, ovOverflow>>
       ELSE /\ ovFrameSrc' = fileUrl
            /\ ovDocShow' = TRUE
            /\ ovOverflow' = "hidden"
    /\ UNCHANGED <<ovPage, ovInfoShow, ovClearTimers, ovInfoTitle>>
    /\ OnlyOverlay

HideDocumentPreview ==
    /\ ovClearTimers < MaxClearTimers
    /\ SetOverlayState(HideDocumentPreviewIn(OverlayState))
    /\ UNCHANGED <<ovPage, ovFrameSrc, ovLastUrl, ovInfoTitle>>
    /\ OnlyOverlay

\* the callback of hideDocumentPreview's timer; nothing ever cancels it
ClearSrcTimerFire ==
    /\ ovClearTimers > 0
    /\ ovClearTimers' = ovClearTimers - 1
    /\ ovFrameSrc' = ""
    /\ UNCHANGED <<ovPage, ovDocShow, ovInfoShow, ovLastUrl, ovOverflow, ovInfoTitle>>
    /\ OnlyOverlay

ShowEducationInfo(title) ==
    /\ IF ~ovPage.info
       THEN UNCHANGED <<ovInfoShow, ovOverflow, ovInfoTitle>>
       ELSE /\ ovInfoTitle' = title
            /\ ovInfoShow' = TRUE
            /\ ovOverflow' = "hidden"
    /\ UNCHANGED <<ovPage, ovDocShow, ovFrameSrc, ovLastUrl, ovClearTimers>>
    /\ OnlyOverlay

HideEducationInfo ==
    /\ SetOverlayState(HideEducationInfoIn(OverlayState))
    /\ UNCHANGED <<ovPage, ovFrameSrc, ovLastUrl, ovInfoTitle>>
    /\ OnlyOverlay

\* closeOverlays: hideDocumentPreview(); hideEducationInfo(); clearTimeout()
CloseOverlays ==
    /\ ovClearTimers < MaxClearTimers
    /\ SetOverlayState(HideEducationInfoIn(HideDocumentPreviewIn(OverlayState)))
    /\ UNCHANGED <<ovPage, ovFrameSrc, ovLastUrl, ovInfoTitle>>
    /\ OnlyOverlay

NextOverlay ==
    \/ \E u \in FileUrls : ShowDocumentPreview(u)
    \/ HideDocumentPreview
    \/ ClearSrcTimerFire
    \/ \E t \in InfoTitles : ShowEducationInfo(t)
    \/ HideEducationInfo
    \/ CloseOverlays

\* ================================================================ debounce
\* PortfolioApp.debounce (main.mjs:420-430) and Utils.performance.debounce
\* (utils:9-21): one debounced function, called by a stream of events.
DebounceWait == 250
MaxDbTime == 750
MaxDbCalls == 3

DbTicks == {125, 250}
DbArgs == {"e1", "e2"}

\* which debounce made the function, and Utils' third parameter
DebounceKinds == { [impl |-> "app", immediate |-> FALSE],
                   [impl |-> "utils", immediate |-> FALSE],
                   [impl |-> "utils", immediate |-> TRUE] }

DebounceInit ==
    /\ dbKind \in DebounceKinds
    /\ dbNow = 0
    /\ dbTimeout = 0
    /\ dbTimers = {}
    /\ dbNextId = 1
    /\ dbCalls = <<>>
    /\ dbRuns = <<>>

\* clearTimeout(handle): the timer with that handle, if still pending, is
\* cancelled; undefined, null and the handle of a timer that has fired are
\* ignored
DbClearTimeoutNoop(timers, handle) == timers
DbClearTimeout(timers, handle) == {t \in timers : t.id # handle}

\* func(...args), with what the caller had last passed when it ran
FuncRun(runs, args) ==
    Append(runs, [at |-> dbNow, args |-> args,
                  lastCallAt |-> dbCalls[Len(dbCalls)].at,
                  lastArgs |-> dbCalls[Len(dbCalls)].args,
                  callsBefore |-> Len(dbCalls)])

\* executedFunction(...args)
DebouncedCall(args) ==
    /\ Len(dbCalls) < MaxDbCalls
    /\ dbCalls' = Append(dbCalls, [at |-> dbNow, args |-> args])
    /\ dbTimers' = DbClearTimeout(dbTimers, dbTimeout)
                       \cup {[id |-> dbNextId, due |-> dbNow + DebounceWait, args |-> args]}
    /\ dbTimeout' = dbNextId
    /\ dbNextId' = dbNextId + 1
    /\ IF dbKind.impl = "utils" /\ dbKind.immediate /\ dbTimeout = 0
       THEN dbRuns' = Append(dbRuns, [at |-> dbNow, args |-> args, lastCallAt |-> dbNow,
                                      lastArgs |-> args, callsBefore |-> Len(dbCalls) + 1])
       ELSE UNCHANGED dbRuns
    /\ UNCHANGED <<dbKind, dbNow>>
    /\ OnlyDebounce

\* later(): the timer callback, not before its due time
DbTimerFire(t) ==
    /\ t \in dbTimers
    /\ dbNow >= t.due
    /\ IF dbKind.impl = "app"
       THEN /\ dbTimers' = DbClearTimeout(dbTimers \ {t}, dbTimeout)
            /\ dbRuns' = FuncRun(dbRuns, t.args)
            /\ UNCHANGED dbTimeout
       ELSE /\ dbTimers' = dbTimers \ {t}
            /\ dbTimeout' = 0
            /\ dbRuns' = IF dbKind.immediate THEN dbRuns ELSE FuncRun(dbRuns, t.args)
    /\ UNCHANGED <<dbKind, dbNow, dbNextId, dbCalls>>
    /\ OnlyDebounce

\* time passes; a due timer may run late
DbTick(d) ==
    /\ dbNow + d <= MaxDbTime
    /\ dbNow' = dbNow + d
    /\ UNCHANGED <<dbKind, dbTimeout, dbTimers, dbNextId, dbCalls, dbRuns>>
    /\ OnlyDebounce

NextDebounce ==
    \/ \E a \in DbArgs : DebouncedCall(a)
    \/ \E t \in dbTimers : DbTimerFire(t)
    \/ \E d \in DbTicks : DbTick(d)

\* ================================================================ TooltipManager
\* positionTooltip / adjustTooltipPosition.  Horizontal geometry in CSS pixels,
\* viewport coordinates; widths are even so that halves are whole.
ViewportMargin == 10

\* One hover: the viewport width, the hovered element's rectangle, the
\* tooltip's width and class, and for an absolutely positioned tooltip its
\* containing block: the hovered bar (a positioned ancestor) or the page.
TooltipCases ==
    [innerWidth : {100, 120},
     left : {-30, 0, 20, 60, 90}, width : {20, 40},
     tooltipWidth : {20, 60, 94, 98},
     control : BOOLEAN, barPositioned : BOOLEAN]

TooltipInit ==
    /\ ttCase \in TooltipCases
    /\ ttCase.control => ttCase.barPositioned
    /\ ttStyle = [position |-> "", left |-> <<0, "px">>, transform |-> ""]
    /\ ttShown = FALSE

\* the containing block that style.left refers to
ContainingBlock(c, style) ==
    IF style.position = "absolute" /\ c.barPositioned
    THEN [left |-> c.left, width |-> c.width]
    ELSE [left |-> 0, width |-> c.innerWidth]

\* tooltip.getBoundingClientRect() under a style: left, then the transform
TooltipRect(c, style) ==
    LET cb == ContainingBlock(c, style)
        offset == IF style.left[2] = "%" THEN (cb.width * style.left[1]) \div 100
                  ELSE style.left[1]
        shift == IF style.transform = "translateX(-50%)" THEN c.tooltipWidth \div 2 ELSE 0
        x == cb.left + offset - shift
    IN [left |-> x, right |-> x + c.tooltipWidth, width |-> c.tooltipWidth]

\* positionTooltip up to the boundary check
PlacedStyle(c) ==
    IF c.control
    THEN [position |-> "fixed", left |-> <<c.left + c.width \div 2, "px">>,
          transform |-> "translateX(-50%)"]
    ELSE [position |-> "absolute", left |-> <<50, "%">>,
          transform |-> "translateX(-50%)"]

\* adjustTooltipPosition, horizontal boundary check
AdjustedStyle(c, style) ==
    LET tooltipRect == TooltipRect(c, style)
    IN IF tooltipRect.left < 0
       THEN [style EXCEPT !.left = <<ViewportMargin, "px">>, !.transform = "none"]
       ELSE IF tooltipRect.right > c.innerWidth
       THEN [style EXCEPT !.left = <<c.innerWidth - tooltipRect.width - ViewportMargin, "px">>,
                          !.transform = "none"]
       ELSE style

\* showTooltip(tooltip, element): positionTooltip, then make it visible
ShowTooltip ==
    /\ ~ttShown
    /\ ttStyle' = AdjustedStyle(ttCase, PlacedStyle(ttCase))
    /\ ttShown' = TRUE
    /\ UNCHANGED ttCase
    /\ OnlyTooltip

\* hideTooltip(tooltip): the inline position stays as it is
HideTooltip ==
    /\ ttShown
    /\ ttShown' = FALSE
    /\ UNCHANGED <<ttCase, ttStyle>>
    /\ OnlyTooltip

NextTooltip == ShowTooltip \/ HideTooltip

\* ================================================================ AccessibilityManager module
\* The ES-module AccessibilityManager (js/modules/accessibility.mjs): what
\* init() inserts into the document and what destroy() removes.
MaxModCalls == 4
MaxAnnounceTimers == 2

\* the ids of the elements init() inserts: createScreenReaderAnnouncer,
\* setupLiveRegions (from setupARIASupport), setupSkipLinks
InsertedIds == {"screen-reader-announcer", "status-live-region",
                "alert-live-region", "skip-links"}

Messages == {"Skill level updated", "Navigation opened"}

\* amDoc[id]: how many elements of the document have that id.
\* amAnnouncer: this.announcer, null or an element in or out of the document.
AModInit ==
    /\ amDoc = [id \in InsertedIds |-> 0]
    /\ amAnnouncer = "null"
    /\ amText = ""
    /\ amLive = "polite"
    /\ amTimers = 0
    /\ amHistory = <<>>

\* init(): every call creates and inserts the four elements anew
AccessibilityModuleInit ==
    /\ Len(amHistory) < MaxModCalls
    /\ amHistory' = Append(amHistory, "init")
    /\ amDoc' = [id \in InsertedIds |-> amDoc[id] + 1]
    /\ amAnnouncer' = "attached"
    /\ amText' = ""
    /\ amLive' = "polite"
    /\ UNCHANGED amTimers
    /\ OnlyAMod

\* destroy(): removes this.announcer from its parent; keyboardMap.clear()
AccessibilityModuleDestroy ==
    /\ Len(amHistory) < MaxModCalls
    /\ amHistory' = Append(amHistory, "destroy")
    /\ IF amAnnouncer = "attached"
       THEN /\ amDoc' = [amDoc EXCEPT !["screen-reader-announcer"] = @ - 1]
            /\ amAnnouncer' = "detached"
       ELSE UNCHANGED <<amDoc, amAnnouncer>>
    /\ UNCHANGED <<amText, amLive, amTimers>>
    /\ OnlyAMod

\* announce(message, priority)
Announce(message, priority) ==
    /\ amAnnouncer # "null"
    /\ amTimers < MaxAnnounceTimers
    /\ amLive' = priority
    /\ amText' = message
    /\ amTimers' = amTimers + 1
    /\ UNCHANGED <<amDoc, amAnnouncer, amHistory>>
    /\ OnlyAMod

\* the timer of announce: this.announcer.textContent = ''
AnnounceTimerFire ==
    /\ amTimers > 0
    /\ amTimers' = amTimers - 1
    /\ amText' = ""
    /\ UNCHANGED <<amDoc, amAnnouncer, amLive, amHistory>>
    /\ OnlyAMod

NextAMod ==
    \/ AccessibilityModuleInit
    \/ AccessibilityModuleDestroy
    \/ \E msg \in Messages, p \in {"polite", "assertive"} : Announce(msg, p)
    \/ AnnounceTimerFire

\* ================================================================ progress bar animations
\* One .skill-progress bar inside a .tool-item that AnimationManager's 'skills'
\* observer watches (animations.mjs:86-90) while SkillsManager's observer
\* watches the bar itself (skills.mjs:136-137).  A width is <<number, "%">> or
\* <<>> for the empty string.

\* threshold crossings with ratio > 0.3 reported to AnimationManager
MaxCrossings == 2

\* the bar's markup: data-value and the inline width it is served with
BarPages == [dataValue : {<<"85">>, <<>>}, inlineWidth : {<<"85", "%">>, <<>>}]

BarInit ==
    /\ pbPage \in BarPages
    /\ pbWidth = pbPage.inlineWidth
    /\ pbSkillAnimation = "pending"
    /\ pbRaf = <<>>
    /\ pbTimers = {}
    /\ pbObserved = TRUE
    /\ pbCrossings = 0
    /\ pbClasses = {}

\* handleSkillsIntersection with ratio > 0.3: animateSkillProgress(element)
AnimateSkillProgress ==
    /\ pbCrossings < MaxCrossings
    /\ pbCrossings' = pbCrossings + 1
    /\ IF pbSkillAnimation = "completed"
       THEN UNCHANGED <<pbWidth, pbRaf, pbTimers>>
       ELSE LET targetWidth == IF pbPage.dataValue # <<>> THEN pbPage.dataValue[1] ELSE "0"
            IN /\ pbWidth' = <<"0", "%">>
               /\ pbRaf' = Append(pbRaf, <<targetWidth, "%">>)
               /\ pbTimers' = pbTimers \cup {"animations"}
    /\ UNCHANGED <<pbPage, pbSkillAnimation, pbObserved, pbClasses>>
    /\ OnlyBar

\* SkillsManager's observer callback, entry.isIntersecting: animateSkillBar(bar),
\* observer.unobserve(bar)
AnimateSkillBar ==
    /\ pbObserved
    /\ pbObserved' = FALSE
    /\ LET targetWidth == pbWidth
       IN /\ pbWidth' = <<"0", "%">>
          /\ pbRaf' = Append(pbRaf, targetWidth)
    /\ pbTimers' = pbTimers \cup {"skills"}
    /\ UNCHANGED <<pbPage, pbSkillAnimation, pbCrossings, pbClasses>>
    /\ OnlyBar

\* the next animation frame: callbacks run in the order they were requested
AnimationFrame ==
    /\ pbRaf # <<>>
    /\ pbWidth' = Head(pbRaf)
    /\ pbRaf' = Tail(pbRaf)
    /\ UNCHANGED <<pbPage, pbSkillAnimation, pbTimers, pbObserved, pbCrossings, pbClasses>>
    /\ OnlyBar

\* the 1500 ms completion timers of the two managers
CompletionTimer(owner) ==
    /\ owner \in pbTimers
    /\ pbTimers' = pbTimers \ {owner}
    /\ IF owner = "animations"
       THEN /\ pbClasses' = pbClasses \cup {"skill-completed"}
            /\ pbSkillAnimation' = "completed"
       ELSE /\ pbClasses' = pbClasses \cup {"animation-complete"}
            /\ UNCHANGED pbSkillAnimation
    /\ UNCHANGED <<pbPage, pbWidth, pbRaf, pbObserved, pbCrossings>>
    /\ OnlyBar

NextBar ==
    \/ AnimateSkillProgress
    \/ AnimateSkillBar
    \/ AnimationFrame
    \/ \E o \in {"animations", "skills"} : CompletionTimer(o)

\* ================================================================ LazyLoader modules
\* LazyLoader.loadModule / loadScript (js/lazy-loader.js).  A script element,
\* once appended to head, is never removed; it is loading, loaded or failed.
MaxLoadCalls == 4

\* setupModuleLazyLoading: module name |-> script
lazyModules == [education |-> "js/education.js", skills |-> "js/skills.js",
                tooltips |-> "js/tooltips.js"]

LoaderInit ==
    /\ ldQueue = {}
    /\ ldScript = [s \in {lazyModules[n] : n \in DOMAIN lazyModules} |-> "none"]
    /\ ldAsked = [n \in DOMAIN lazyModules |-> 0]
    /\ ldCalls = [n \in DOMAIN lazyModules |-> 0]
    /\ ldResolved = {}
    /\ ldLoaded = {}
    /\ ldTotal = 0

\* this.moduleQueue.includes(moduleName)
ModuleQueuedNever(name) == FALSE
ModuleQueued(name) == name \in ldQueue

\* The body of loadScript's promise: with a script element for src already in
\* the document the promise resolves at once, whatever state that script is
\* in; otherwise a new element is appended and starts loading.
\* ldResolved records each resolution with the state the script was in.
ScriptRequested(src) ==
    IF ldScript[src] # "none"
    THEN /\ ldResolved' = ldResolved \cup {[src |-> src, state |-> ldScript[src]]}
         /\ UNCHANGED ldScript
    ELSE /\ ldScript' = [ldScript EXCEPT ![src] = "loading"]
         /\ UNCHANGED ldResolved

\* loadModule(element) for the trigger element of module `name`
LoadModule(name) ==
    /\ ldTotal < MaxLoadCalls
    /\ ldTotal' = ldTotal + 1
    /\ ldAsked' = [ldAsked EXCEPT ![name] = @ + 1]
    /\ IF ModuleQueued(name)
       THEN UNCHANGED <<ldQueue, ldCalls, ldScript, ldResolved, ldLoaded>>
       ELSE /\ ldQueue' = ldQueue \cup {name}
            /\ ldCalls' = [ldCalls EXCEPT ![name] = @ + 1]
            /\ ScriptRequested(lazyModules[name])
            \* .then of a promise that resolved at once
            /\ ldLoaded' = IF ldScript[lazyModules[name]] # "none"
                           THEN ldLoaded \cup {name} ELSE ldLoaded
    /\ OnlyLoader

\* loadScript(src) called by other code
LoadScript(src) ==
    /\ ldTotal < MaxLoadCalls
    /\ ldTotal' = ldTotal + 1
    /\ ScriptRequested(src)
    /\ UNCHANGED <<ldQueue, ldAsked, ldCalls, ldLoaded>>
    /\ OnlyLoader

\* script.onload / script.onerror of the element that is loading: the promise
\* of the loadScript that made it resolves or rejects; loadModule's .then marks
\* the trigger element, its .catch only logs
ScriptSettled(src, ok) ==
    /\ ldScript[src] = "loading"
    /\ ldScript' = [ldScript EXCEPT ![src] = IF ok THEN "loaded" ELSE "failed"]
    /\ ldResolved' = IF ok THEN ldResolved \cup {[src |-> src, state |-> "loaded"]}
                     ELSE ldResolved
    /\ ldLoaded' = IF ok THEN ldLoaded \cup {n \in ldQueue : lazyModules[n] = src}
                   ELSE ldLoaded
    /\ UNCHANGED <<ldQueue, ldAsked, ldCalls, ldTotal>>
    /\ OnlyLoader

\* destroy(): this.moduleQueue = []; a later init() starts a new period
LoaderDestroy ==
    /\ ldQueue # {}
    /\ ldQueue' = {}
    /\ ldAsked' = [n \in DOMAIN lazyModules |-> 0]
    /\ ldCalls' = [n \in DOMAIN lazyModules |-> 0]
    /\ UNCHANGED <<ldScript, ldResolved, ldLoaded, ldTotal>>
    /\ OnlyLoader

NextLoader ==
    \/ \E n \in DOMAIN lazyModules : LoadModule(n)
    \/ \E s \in DOMAIN ldScript : LoadScript(s)
    \/ \E s \in DOMAIN ldScript, ok \in BOOLEAN : ScriptSettled(s, ok)
    \/ LoaderDestroy

\* ================================================================ focus trap
\* The focus trap of the ES-module AccessibilityManager (accessibility.mjs) and
\* the tab trapping of the legacy one (js/accessibility.js).  The page's tab
\* order is 0 .. TabStops-1; a modal container holds a contiguous part of it,
\* possibly none.  An element that does not exist is Undefined.  ftKeys counts
\* the Tab presses since the trap was activated, ftErrors the errors raised by
\* keydown listeners (Escape presses are followed up to MaxKeys errors).
TabStops == 4
MaxTrapInits == 2
MaxKeys == 3
Undefined == -1

TabOrder == 0 .. (TabStops - 1)
Containers == {lo .. hi : lo \in TabOrder, hi \in TabOrder}
TrapImpls == {"module", "legacy"}

\* getFocusableElements(container)[0] and [length - 1]
FirstFocusable(c) == IF c = {} THEN Undefined ELSE CHOOSE p \in c : \A q \in c : p <= q
LastFocusable(c) == IF c = {} THEN Undefined ELSE CHOOSE p \in c : \A q \in c : p >= q

\* constructor: this.focusTrap = null, no listener yet; the legacy manager has
\* its keydown listener and no modal open
TrapInit ==
    /\ ftImpl \in TrapImpls
    /\ ftNull = (ftImpl = "module")
    /\ ftListeners = IF ftImpl = "module" THEN 0 ELSE 1
    /\ ftActive = FALSE
    /\ ftContainer = {}
    /\ ftFirst = Undefined
    /\ ftLast = Undefined
    /\ ftFocus \in TabOrder
    /\ ftKeys = 0
    /\ ftErrors = 0

\* init() -> setupFocusManagement -> setupFocusTrap: a fresh focusTrap object
\* and one more keydown listener on document
SetupFocusTrap ==
    /\ ftImpl = "module"
    /\ ftListeners < MaxTrapInits
    /\ ftListeners' = ftListeners + 1
    /\ ftNull' = FALSE
    /\ ftActive' = FALSE
    /\ ftContainer' = {}
    /\ ftFirst' = Undefined
    /\ ftLast' = Undefined
    /\ UNCHANGED <<ftImpl, ftFocus, ftKeys, ftErrors>>
    /\ OnlyTrap

\* activateFocusTrap(container); for the legacy manager: a modal gets the class
\* 'show' (handleTabTrapping looks the modal up on every Tab, focus stays put)
ActivateFocusTrap(c) ==
    /\ ~ftNull
    /\ ~ftActive
    /\ ftActive' = TRUE
    /\ ftContainer' = c
    /\ ftFirst' = FirstFocusable(c)
    /\ ftLast' = LastFocusable(c)
    /\ ftFocus' = IF ftImpl = "module" /\ FirstFocusable(c) # Undefined
                  THEN FirstFocusable(c) ELSE ftFocus
    /\ ftKeys' = 0
    /\ UNCHANGED <<ftImpl, ftNull, ftListeners, ftErrors>>
    /\ OnlyTrap

\* deactivateFocusTrap(); legacy: the modal loses 'show'
DeactivateFocusTrap ==
    /\ ~ftNull
    /\ ftActive
    /\ ftActive' = FALSE
    /\ ftContainer' = {}
    /\ UNCHANGED <<ftImpl, ftNull, ftListeners, ftFirst, ftLast, ftFocus, ftKeys, ftErrors>>
    /\ OnlyTrap

\* destroy(): this.focusTrap = null; the keydown listeners stay
TrapDestroy ==
    /\ ftImpl = "module"
    /\ ~ftNull
    /\ ftNull' = TRUE
    /\ ftActive' = FALSE
    /\ ftContainer' = {}
    /\ ftFirst' = Undefined
    /\ ftLast' = Undefined
    /\ UNCHANGED <<ftImpl, ftListeners, ftFocus, ftKeys, ftErrors>>
    /\ OnlyTrap

\* handleFocusTrap / handleTabTrapping: the element focus() is called on, or
\* Undefined when the handler leaves the key to the browser
TrappedTarget(shift) ==
    IF ~ftActive THEN Undefined
    ELSE IF shift /\ ftFocus = ftFirst THEN ftLast
    ELSE IF ~shift /\ ftFocus = ftLast THEN ftFirst
    ELSE Undefined

\* keydown Tab / Shift+Tab on the document: each listener of setupFocusTrap
\* reads this.focusTrap.active (a TypeError on null); without preventDefault
\* the browser moves focus to the next or previous tab stop
KeyTab(shift) ==
    /\ ftKeys < MaxKeys
    /\ ftKeys' = ftKeys + 1
    /\ ftErrors' = IF ftNull THEN ftErrors + ftListeners ELSE ftErrors
    /\ ftFocus' = IF ~ftNull /\ TrappedTarget(shift) # Undefined
                  THEN TrappedTarget(shift)
                  ELSE (ftFocus + (IF shift THEN TabStops - 1 ELSE 1)) % TabStops
    /\ UNCHANGED <<ftImpl, ftNull, ftListeners, ftActive, ftContainer, ftFirst, ftLast>>
    /\ OnlyTrap

\* keydown Escape: the focus trap listeners run as for any key; the module's
\* global handler closes a shown modal and deactivates its trap
KeyEscape ==
    /\ ftNull => ftErrors < MaxKeys
    /\ ftErrors' = IF ftNull THEN ftErrors + ftListeners ELSE ftErrors
    /\ ftActive' = IF ftImpl = "module" THEN FALSE ELSE ftActive
    /\ ftContainer' = IF ftImpl = "module" THEN {} ELSE ftContainer
    /\ UNCHANGED <<ftImpl, ftNull, ftListeners, ftFirst, ftLast, ftFocus, ftKeys>>
    /\ OnlyTrap

NextTrap ==
    \/ SetupFocusTrap
    \/ \E c \in Containers : ActivateFocusTrap(c)
    \/ DeactivateFocusTrap
    \/ TrapDestroy
    \/ \E shift \in BOOLEAN : KeyTab(shift)
    \/ KeyEscape

\* ================================================================ touch handling
\* The touch listeners of MobileManager.setupTouchEvents (js/mobile.js) and of
\* App.setupTouchOptimization on the same interactive elements.  Touches move
\* along one axis, so the distance of two positions is |x1 - x2|.
TapDuration == 500
TapDistance == 10
MaxTouchTime == 750
TouchTick == 250

TouchElements == {"skill", "row"}
TouchPositions == {0, 5, 20}
NoTouch == [on |-> FALSE, t0 |-> 0, x0 |-> 0]
Distance(x1, x2) == IF x1 >= x2 THEN x1 - x2 ELSE x2 - x1

\* MobileManager: touchStartTime: 0, touchStartPosition: {x: 0, y: 0}
TouchInit ==
    /\ tcApp \in BOOLEAN
    /\ tcMobile \in BOOLEAN
    /\ tcApp \/ tcMobile
    /\ tcNow = 0
    /\ tcStartTime = 0
    /\ tcStartPosition = 0
    /\ tcTouch = [el \in TouchElements |-> NoTouch]
    /\ tcEnded = [el \in TouchElements |-> [done |-> FALSE, duration |-> 0, moved |-> 0]]
    /\ tcClicks = [el \in TouchElements |-> 0]

\* touchstart on el at x: MobileManager's listener stores time and position in
\* the manager's two fields, shared by all elements
TouchStart(el, x) ==
    /\ ~tcTouch[el].on
    /\ tcTouch' = [tcTouch EXCEPT ![el] = [on |-> TRUE, t0 |-> tcNow, x0 |-> x]]
    /\ tcStartTime' = IF tcMobile THEN tcNow ELSE tcStartTime
    /\ tcStartPosition' = IF tcMobile THEN x ELSE tcStartPosition
    /\ tcEnded' = [tcEnded EXCEPT ![el].done = FALSE]
    /\ tcClicks' = [tcClicks EXCEPT ![el] = 0]
    /\ UNCHANGED <<tcApp, tcMobile, tcNow>>
    /\ OnlyTouch

\* 'Only trigger click if it was a quick tap (not a scroll)'
QuickTap(duration, distance) == duration < TapDuration /\ distance < TapDistance

\* touchend on el at x: App's listener clicks; MobileManager's listener clicks
\* when the time since touchStartTime and the distance from touchStartPosition
\* are those of a quick tap.  tcEnded keeps the touch's own duration and
\* displacement, tcClicks the clicks its touchend produced.
TouchEnd(el, x) ==
    /\ tcTouch[el].on
    /\ tcTouch' = [tcTouch EXCEPT ![el] = NoTouch]
    /\ tcEnded' = [tcEnded EXCEPT ![el] =
                      [done |-> TRUE, duration |-> tcNow - tcTouch[el].t0,
                       moved |-> Distance(x, tcTouch[el].x0)]]
    /\ tcClicks' = [tcClicks EXCEPT ![el] =
                      (IF tcApp THEN 1 ELSE 0)
                      + (IF tcMobile /\ QuickTap(tcNow - tcStartTime,
                                                 Distance(x, tcStartPosition))
                         THEN 1 ELSE 0)]
    /\ UNCHANGED <<tcApp, tcMobile, tcNow, tcStartTime, tcStartPosition>>
    /\ OnlyTouch

TouchTime ==
    /\ tcNow + TouchTick <= MaxTouchTime
    /\ tcNow' = tcNow + TouchTick
    /\ UNCHANGED <<tcApp, tcMobile, tcStartTime, tcStartPosition, tcTouch, tcEnded, tcClicks>>
    /\ OnlyTouch

NextTouch ==
    \/ \E el \in TouchElements, x \in TouchPositions : TouchStart(el, x)
    \/ \E el \in TouchElements, x \in TouchPositions : TouchEnd(el, x)
    \/ TouchTime

\* ================================================================ education row clicks
\* The click listeners EducationManager.setupEducationRows attaches to document
\* rows (legacy education manager), over re-initialisations by
\* App.reinitializeModules and addEducationItem.  No code removes a listener.
MaxRowSetups == 3

PageRows == {"diploma"}
AddedRows == {"added1", "added2"}

\* after App.init() -> EducationManager.init(): one click listener per row
RowsInit ==
    /\ rcRows = PageRows
    /\ rcListeners = [r \in PageRows \cup AddedRows |-> IF r \in PageRows THEN 1 ELSE 0]
    /\ rcMobile \in BOOLEAN
    /\ rcSetups = 0
    /\ rcClicked = "none"
    /\ rcOpened = 0

\* setupElements + setupEducationRows over the rows now in the document: both
\* branches of setupDocumentRow add a click listener that opens the file
SetupEducationRows(listeners, rows) ==
    [r \in DOMAIN listeners |-> IF r \in rows THEN listeners[r] + 1 ELSE listeners[r]]

\* 'resize' across the breakpoint: App.handleResize -> reinitializeModules ->
\* EducationManager.destroy() (initialized = false) and init() again
RowsDeviceTypeChange ==
    /\ rcSetups < MaxRowSetups
    /\ rcSetups' = rcSetups + 1
    /\ rcMobile' = ~rcMobile
    /\ rcListeners' = SetupEducationRows(rcListeners, rcRows)
    /\ UNCHANGED <<rcRows, rcClicked, rcOpened>>
    /\ OnlyRows

\* addEducationItem(data) with one document row: the row is appended, then
\* every row of the document is set up
AddEducationItem(r) ==
    /\ rcSetups < MaxRowSetups
    /\ r \in AddedRows \ rcRows
    /\ rcSetups' = rcSetups + 1
    /\ rcRows' = rcRows \cup {r}
    /\ rcListeners' = SetupEducationRows(rcListeners, rcRows \cup {r})
    /\ UNCHANGED <<rcMobile, rcClicked, rcOpened>>
    /\ OnlyRows

\* one click on a document row: every click listener of the row runs
\* (stopPropagation does not stop the row's other listeners) and calls
\* window.open
RowClick(r) ==
    /\ r \in rcRows
    /\ rcClicked' = r
    /\ rcOpened' = rcListeners[r]
    /\ UNCHANGED <<rcRows, rcListeners, rcMobile, rcSetups>>
    /\ OnlyRows

NextRows ==
    \/ RowsDeviceTypeChange
    \/ \E r \in AddedRows : AddEducationItem(r)
    \/ \E r \in PageRows \cup AddedRows : RowClick(r)

\* ================================================================ keyboard activation
\* The keydown listeners that turn Enter or Space into a click: the legacy
\* AccessibilityManager and LazyLoader, the ES-module AccessibilityManager and
\* SkillsManager.  Each of them calls element.click() from its own listener.
MaxKeyPresses == 2

KeyStacks == [legacy |-> {"AccessibilityManager", "LazyLoader"},
              module |-> {"AccessibilityManager", "SkillsManager"}]
FocusableKinds == {"skill-control", "language-control", "education-row", "social-link"}
ActivationKeys == {"Enter", " "}
PressedKeys == ActivationKeys \cup {"Escape"}

\* the elements a module's init() attaches such a keydown listener to
KeydownTargets(stack, mod) ==
    CASE stack = "legacy" /\ mod = "AccessibilityManager" ->
             {"skill-control", "language-control", "education-row", "social-link"}
      [] stack = "legacy" /\ mod = "LazyLoader" ->
             {"skill-control", "language-control", "education-row"}
      [] stack = "module" /\ mod = "AccessibilityManager" ->
             {"skill-control", "language-control", "education-row"}
      [] stack = "module" /\ mod = "SkillsManager" ->
             {"skill-control", "language-control"}

KeysInit ==
    /\ kbStack \in DOMAIN KeyStacks
    /\ kbInitialized = {}
    /\ kbPresses = 0
    /\ kbLast = [el |-> "none", key |-> "none", mods |-> {}, clicks |-> 0]

\* init() of one of the stack's modules (each guards or is called once)
KeyboardModuleInit(mod) ==
    /\ mod \in KeyStacks[kbStack] \ kbInitialized
    /\ kbInitialized' = kbInitialized \cup {mod}
    /\ UNCHANGED <<kbStack, kbPresses, kbLast>>
    /\ OnlyKeys

\* one keydown on the focused element el: every listener on it runs and, for
\* Enter or Space, calls el.click(); kbLast keeps the keypress, the modules
\* initialised at that time and the clicks it produced
ElementKeyDown(el, key) ==
    /\ kbPresses < MaxKeyPresses
    /\ kbPresses' = kbPresses + 1
    /\ kbLast' = [el |-> el, key |-> key, mods |-> kbInitialized,
                  clicks |-> IF key \in ActivationKeys
                             THEN Cardinality({mod \in kbInitialized :
                                      el \in KeydownTargets(kbStack, mod)})
                             ELSE 0]
    /\ UNCHANGED <<kbStack, kbInitialized>>
    /\ OnlyKeys

NextKeys ==
    \/ \E mod \in {"AccessibilityManager", "LazyLoader", "SkillsManager"} :
           KeyboardModuleInit(mod)
    \/ \E el \in FocusableKinds, key \in PressedKeys : ElementKeyDown(el, key)

\* ================================================================ AnimationManager observers
\* The IntersectionObservers of AnimationManager (animations.mjs): the Map
\* this.observers holds one observer per kind; an observer is connected while
\* it observes an element.  obReplaced counts, per kind, the connected
\* observers that are no longer in the Map.
MaxObsResizes == 3

ObserverKinds == {"main", "skills", "neural"}

\* after init(): setupIntersectionObservers has created the three observers and
\* observeElements has handed each the elements of its kind the page has
ObsInit ==
    /\ obPage \in [ObserverKinds -> BOOLEAN]
    /\ obCurrent = obPage
    /\ obReplaced = [k \in ObserverKinds |-> 0]
    /\ obHidden = FALSE
    /\ obResizes = 0

\* PortfolioApp.handleResize -> AnimationManager.handleResize ->
\* setupIntersectionObservers: observers.set(kind, new IntersectionObserver)
\* replaces the Map's entry, the earlier observer is not disconnected;
\* observeElements then connects the new ones
AnimationHandleResize ==
    /\ obResizes < MaxObsResizes
    /\ obResizes' = obResizes + 1
    /\ obReplaced' = [k \in ObserverKinds |->
                         IF obCurrent[k] THEN obReplaced[k] + 1 ELSE obReplaced[k]]
    /\ obCurrent' = obPage
    /\ UNCHANGED <<obPage, obHidden>>
    /\ OnlyObs

\* visibilitychange to hidden: pauseNonEssentialOperations -> pause():
\* disconnect() on every observer in the Map
AnimationPause ==
    /\ ~obHidden
    /\ obHidden' = TRUE
    /\ obCurrent' = [k \in ObserverKinds |-> FALSE]
    /\ UNCHANGED <<obPage, obReplaced, obResizes>>
    /\ OnlyObs

\* visibilitychange to visible: resumeOperations -> resume(): observeElements
AnimationResume ==
    /\ obHidden
    /\ obHidden' = FALSE
    /\ obCurrent' = obPage
    /\ UNCHANGED <<obPage, obReplaced, obResizes>>
    /\ OnlyObs

NextObs ==
    \/ AnimationHandleResize
    \/ AnimationPause
    \/ AnimationResume

\* ================================================================ skill value tooltip
\* showSkillValue / showLanguageValue of SkillsManager (skills.mjs, js/skills.js)
\* for one control: every click shows the tooltip and starts a reset timer;
\* no timer handle is kept.  Timers run when due; timers due at the same time
\* are one element of svTimers.
ResetDelay == 800
SvTick == 400
MaxSvTime == 2000
MaxSvClicks == 3
NoClick == -1

TipInit ==
    /\ svNow = 0
    /\ svVisible = FALSE
    /\ svTimers = {}
    /\ svLastClick = NoClick
    /\ svClicks = 0

\* click on the control: tooltip.style.opacity = '1' and
\* setTimeout(reset, 800)
ShowSkillValue ==
    /\ svClicks < MaxSvClicks
    /\ svClicks' = svClicks + 1
    /\ svVisible' = TRUE
    /\ svTimers' = svTimers \cup {svNow + ResetDelay}
    /\ svLastClick' = svNow
    /\ UNCHANGED svNow
    /\ OnlyTip

\* the setTimeout callback: tooltip.style.opacity = '0'
SkillValueReset(due) ==
    /\ due \in svTimers
    /\ due <= svNow
    /\ svTimers' = svTimers \ {due}
    /\ svVisible' = FALSE
    /\ UNCHANGED <<svNow, svLastClick, svClicks>>
    /\ OnlyTip

\* time passes, up to the due time of the next pending timer
SkillValueTime ==
    /\ svNow + SvTick <= MaxSvTime
    /\ \A due \in svTimers : svNow < due
    /\ svNow' = IF \E due \in svTimers : due < svNow + SvTick
              THEN CHOOSE due \in svTimers : \A other \in svTimers : due <= other
              ELSE svNow + SvTick
    /\ UNCHANGED <<svVisible, svTimers, svLastClick, svClicks>>
    /\ OnlyTip

NextTip ==
    \/ ShowSkillValue
    \/ \E due \in svTimers : SkillValueReset(due)
    \/ SkillValueTime

\* ============================================================ specifications
\* Each program runs in a realm of its own; while one is examined the others
\* stay in one fixed initial state.
AppParked == AppInit /\ innerWidth = 1024 /\ env = PlainPage
BuildParked == BuildInit /\ dist = {} /\ srcFiles = {} /\ ~fsFaulty
ScriptParked == ScriptInit /\ scPage = [navbar |-> TRUE, hamburger |-> TRUE, navMenu |-> TRUE, navLinks |-> TRUE]
SWParked == SWInit /\ swOriginHas = OriginUrls /\ swCaches["etiosa-portfolio-v0"] = {}
A11yParked == A11yInit /\ prefersReducedMotion = FALSE
SkillsParked == SkillsInit /\ skTerm = <<>> /\ ~skOtherHighlighted /\ skItems = (CHOOSE p \in SkillPages : TRUE)
EduParked == EduInit /\ eduMobileNow = FALSE
OverlayParked == OverlayInit /\ ovPage = [doc |-> TRUE, info |-> TRUE]
DebounceParked == DebounceInit /\ dbKind = [impl |-> "app", immediate |-> FALSE]
TooltipParked == TooltipInit /\ ttCase = [innerWidth |-> 100, left |-> 20, width |-> 20, tooltipWidth |-> 20, control |-> TRUE, barPositioned |-> TRUE]
AModParked == AModInit /\ TRUE
BarParked == BarInit /\ pbPage = [dataValue |-> <<"85">>, inlineWidth |-> <<"85", "%">>]
LoaderParked == LoaderInit /\ TRUE
LegacyParked == LegacyInit /\ legacyWidth = 1024 /\ lazyPage = [io |-> TRUE, lazyImages |-> FALSE, profileImage |-> FALSE, triggers |-> FALSE]
TouchParked == TouchInit /\ tcApp /\ tcMobile
RowsParked == RowsInit /\ rcMobile = FALSE
KeysParked == KeysInit /\ kbStack = "legacy"
TrapParked == TrapInit /\ ftImpl = "module" /\ ftFocus = 0
ObsParked == ObsInit /\ obPage = [k \in ObserverKinds |-> TRUE]
TipParked == TipInit /\ TRUE

InitApp == AppInitWith(PlainPage, 0) /\ BuildParked /\ ScriptParked /\ SWParked /\ A11yParked /\ SkillsParked /\ EduParked /\ OverlayParked /\ DebounceParked /\ TooltipParked /\ AModParked /\ BarParked /\ LoaderParked /\ LegacyParked /\ TouchParked /\ RowsParked /\ KeysParked /\ TrapParked /\ ObsParked /\ TipParked
InitBuild == AppParked /\ BuildInit /\ ScriptParked /\ SWParked /\ A11yParked /\ SkillsParked /\ EduParked /\ OverlayParked /\ DebounceParked /\ TooltipParked /\ AModParked /\ BarParked /\ LoaderParked /\ LegacyParked /\ TouchParked /\ RowsParked /\ KeysParked /\ TrapParked /\ ObsParked /\ TipParked
InitScript == AppParked /\ BuildParked /\ ScriptInit /\ SWParked /\ A11yParked /\ SkillsParked /\ EduParked /\ OverlayParked /\ DebounceParked /\ TooltipParked /\ AModParked /\ BarParked /\ LoaderParked /\ LegacyParked /\ TouchParked /\ RowsParked /\ KeysParked /\ TrapParked /\ ObsParked /\ TipParked
InitSW == AppParked /\ BuildParked /\ ScriptParked /\ SWInit /\ A11yParked /\ SkillsParked /\ EduParked /\ OverlayParked /\ DebounceParked /\ TooltipParked /\ AModParked /\ BarParked /\ LoaderParked /\ LegacyParked /\ TouchParked /\ RowsParked /\ KeysParked /\ TrapParked /\ ObsParked /\ TipParked
InitA11y == AppParked /\ BuildParked /\ ScriptParked /\ SWParked /\ A11yInit /\ SkillsParked /\ EduParked /\ OverlayParked /\ DebounceParked /\ TooltipParked /\ AModParked /\ BarParked /\ LoaderParked /\ LegacyParked /\ TouchParked /\ RowsParked /\ KeysParked /\ TrapParked /\ ObsParked /\ TipParked
InitSkills == AppParked /\ BuildParked /\ ScriptParked /\ SWParked /\ A11yParked /\ SkillsInit /\ EduParked /\ OverlayParked /\ DebounceParked /\ TooltipParked /\ AModParked /\ BarParked /\ LoaderParked /\ LegacyParked /\ TouchParked /\ RowsParked /\ KeysParked /\ TrapParked /\ ObsParked /\ TipParked
InitEdu == AppParked /\ BuildParked /\ ScriptParked /\ SWParked /\ A11yParked /\ SkillsParked /\ EduInit /\ OverlayParked /\ DebounceParked /\ TooltipParked /\ AModParked /\ BarParked /\ LoaderParked /\ LegacyParked /\ TouchParked /\ RowsParked /\ KeysParked /\ TrapParked /\ ObsParked /\ TipParked
InitOverlay == AppParked /\ BuildParked /\ ScriptParked /\ SWParked /\ A11yParked /\ SkillsParked /\ EduParked /\ OverlayInit /\ DebounceParked /\ TooltipParked /\ AModParked /\ BarParked /\ LoaderParked /\ LegacyParked /\ TouchParked /\ RowsParked /\ KeysParked /\ TrapParked /\ ObsParked /\ TipParked
InitDebounce == AppParked /\ BuildParked /\ ScriptParked /\ SWParked /\ A11yParked /\ SkillsParked /\ EduParked /\ OverlayParked /\ DebounceInit /\ TooltipParked /\ AModParked /\ BarParked /\ LoaderParked /\ LegacyParked /\ TouchParked /\ RowsParked /\ KeysParked /\ TrapParked /\ ObsParked /\ TipParked
InitTooltip == AppParked /\ BuildParked /\ ScriptParked /\ SWParked /\ A11yParked /\ SkillsParked /\ EduParked /\ OverlayParked /\ DebounceParked /\ TooltipInit /\ AModParked /\ BarParked /\ LoaderParked /\ LegacyParked /\ TouchParked /\ RowsParked /\ KeysParked /\ TrapParked /\ ObsParked /\ TipParked
InitAMod == AppParked /\ BuildParked /\ ScriptParked /\ SWParked /\ A11yParked /\ SkillsParked /\ EduParked /\ OverlayParked /\ DebounceParked /\ TooltipParked /\ AModInit /\ BarParked /\ LoaderParked /\ LegacyParked /\ TouchParked /\ RowsParked /\ KeysParked /\ TrapParked /\ ObsParked /\ TipParked
InitBar == AppParked /\ BuildParked /\ ScriptParked /\ SWParked /\ A11yParked /\ SkillsParked /\ EduParked /\ OverlayParked /\ DebounceParked /\ TooltipParked /\ AModParked /\ BarInit /\ LoaderParked /\ LegacyParked /\ TouchParked /\ RowsParked /\ KeysParked /\ TrapParked /\ ObsParked /\ TipParked
InitLoader == AppParked /\ BuildParked /\ ScriptParked /\ SWParked /\ A11yParked /\ SkillsParked /\ EduParked /\ OverlayParked /\ DebounceParked /\ TooltipParked /\ AModParked /\ BarParked /\ LoaderInit /\ LegacyParked /\ TouchParked /\ RowsParked /\ KeysParked /\ TrapParked /\ ObsParked /\ TipParked
InitLegacy == AppParked /\ BuildParked /\ ScriptParked /\ SWParked /\ A11yParked /\ SkillsParked /\ EduParked /\ OverlayParked /\ DebounceParked /\ TooltipParked /\ AModParked /\ BarParked /\ LoaderParked /\ LegacyInit /\ TouchParked /\ RowsParked /\ KeysParked /\ TrapParked /\ ObsParked /\ TipParked
InitTouch == AppParked /\ BuildParked /\ ScriptParked /\ SWParked /\ A11yParked /\ SkillsParked /\ EduParked /\ OverlayParked /\ DebounceParked /\ TooltipParked /\ AModParked /\ BarParked /\ LoaderParked /\ LegacyParked /\ TouchInit /\ RowsParked /\ KeysParked /\ TrapParked /\ ObsParked /\ TipParked
InitRows == AppParked /\ BuildParked /\ ScriptParked /\ SWParked /\ A11yParked /\ SkillsParked /\ EduParked /\ OverlayParked /\ DebounceParked /\ TooltipParked /\ AModParked /\ BarParked /\ LoaderParked /\ LegacyParked /\ TouchParked /\ RowsInit /\ KeysParked /\ TrapParked /\ ObsParked /\ TipParked
InitKeys == AppParked /\ BuildParked /\ ScriptParked /\ SWParked /\ A11yParked /\ SkillsParked /\ EduParked /\ OverlayParked /\ DebounceParked /\ TooltipParked /\ AModParked /\ BarParked /\ LoaderParked /\ LegacyParked /\ TouchParked /\ RowsParked /\ KeysInit /\ TrapParked /\ ObsParked /\ TipParked
InitTrap == AppParked /\ BuildParked /\ ScriptParked /\ SWParked /\ A11yParked /\ SkillsParked /\ EduParked /\ OverlayParked /\ DebounceParked /\ TooltipParked /\ AModParked /\ BarParked /\ LoaderParked /\ LegacyParked /\ TouchParked /\ RowsParked /\ KeysParked /\ TrapInit /\ ObsParked /\ TipParked
InitObs == AppParked /\ BuildParked /\ ScriptParked /\ SWParked /\ A11yParked /\ SkillsParked /\ EduParked /\ OverlayParked /\ DebounceParked /\ TooltipParked /\ AModParked /\ BarParked /\ LoaderParked /\ LegacyParked /\ TouchParked /\ RowsParked /\ KeysParked /\ TrapParked /\ ObsInit /\ TipParked
InitTip == AppParked /\ BuildParked /\ ScriptParked /\ SWParked /\ A11yParked /\ SkillsParked /\ EduParked /\ OverlayParked /\ DebounceParked /\ TooltipParked /\ AModParked /\ BarParked /\ LoaderParked /\ LegacyParked /\ TouchParked /\ RowsParked /\ KeysParked /\ TrapParked /\ ObsParked /\ TipInit

Init == InitApp
Next == NextApp \/ NextBuild \/ NextScript \/ NextSW \/ NextA11y \/ NextSkills \/ NextEdu \/ NextOverlay \/ NextDebounce \/ NextTooltip \/ NextAMod \/ NextBar \/ NextLoader \/ NextLegacy \/ NextTouch \/ NextRows \/ NextKeys \/ NextTrap \/ NextObs \/ NextTip
Spec == Init /\ [][Next]_vars
SpecApp == InitApp /\ [][NextApp]_vars
SpecBuild == InitBuild /\ [][NextBuild]_vars
SpecScript == InitScript /\ [][NextScript]_vars
SpecSW == InitSW /\ [][NextSW]_vars
SpecA11y == InitA11y /\ [][NextA11y]_vars
SpecSkills == InitSkills /\ [][NextSkills]_vars
SpecEdu == InitEdu /\ [][NextEdu]_vars
SpecOverlay == InitOverlay /\ [][NextOverlay]_vars
SpecDebounce == InitDebounce /\ [][NextDebounce]_vars
SpecTooltip == InitTooltip /\ [][NextTooltip]_vars
SpecAMod == InitAMod /\ [][NextAMod]_vars
SpecBar == InitBar /\ [][NextBar]_vars
SpecLoader == InitLoader /\ [][NextLoader]_vars
SpecLegacy == InitLegacy /\ [][NextLegacy]_vars
SpecTouch == InitTouch /\ [][NextTouch]_vars
SpecRows == InitRows /\ [][NextRows]_vars
SpecKeys == InitKeys /\ [][NextKeys]_vars
SpecTrap == InitTrap /\ [][NextTrap]_vars
SpecObs == InitObs /\ [][NextObs]_vars
SpecTip == InitTip /\ [][NextTip]_vars

\* init() alone, on every page and browser, with at most one disturbance (a
\* second caller or a rejected module init())
InitAppAnyPage ==
    /\ \E page \in Environments : AppInitWith(page, MaxDisturbances - 1)
    /\ BuildParked /\ ScriptParked /\ SWParked /\ A11yParked /\ SkillsParked /\ EduParked /\ OverlayParked /\ DebounceParked /\ TooltipParked /\ AModParked /\ BarParked /\ LoaderParked /\ LegacyParked /\ TouchParked /\ RowsParked /\ KeysParked /\ TrapParked /\ ObsParked /\ TipParked
SpecAppInit == InitAppAnyPage /\ [][NextAppInit]_vars

\* ================================================================ claims

\* C1: with no destroy() called, however many init() calls are made (also one
\* made while an earlier init() is still awaiting a module), every module is
\* initialised at most once, the global listeners are registered at most once
\* and 'portfolio:initialized' is dispatched at most once.
C1_InitOnce ==
    (\A d \in DestroyCalls : dpc[d] = "idle") =>
        /\ \A n \in ModuleNames : moduleInits[n] <= 1
        /\ globalEventsRuns <= 1
        /\ dispatched["portfolio:initialized"] <= 1

\* C4: when a destroy() call completes, it has invoked destroy() exactly once on
\* every module that was registered when it was called, the modules map is
\* empty and initialized is false, whether or not a module's destroy() threw.
C4_DestroyClean ==
    [][\A d \in DestroyCalls :
          (dpc[d] # "done" /\ dpc'[d] = "done") =>
              /\ modules' = <<>>
              /\ initialized' = FALSE
              /\ \A i \in DOMAIN regAtStart'[d] :
                     Count(destroyedBy'[d], regAtStart'[d][i]) = 1]_vars

\* C5: once destroy() has completed (the app is not initialized and no init()
\* is running or has run since), a resize or visibilitychange event invokes
\* neither handleResize nor handleVisibilityChange, and no 'portfolio:resize'
\* event is dispatched.
C5_ListenersRemoved ==
    [][(sinceDestroy /\ ~initialized /\ \A c \in InitCalls : ~InitInFlight(c)) =>
          /\ visRuns' = visRuns
          /\ dispatched'["portfolio:resize"] = dispatched["portfolio:resize"]]_vars

\* C2: a finished build in which any step met a thrown error has exited with
\* status 1 and has not reported 'Build completed successfully'.
C2_FailedBuildExits1 ==
    (bpc \in {"done", "exited"} /\ threwIn # {}) =>
        (exitCode = 1 /\ ~successReported)

\* --------------------------------------------------------- claims of script.js
\* C3: no handler of script.js raises an exception, whichever of .navbar,
\* .hamburger, .nav-menu the page lacks: scrolling, clicking a nav link and
\* pressing Escape are silent no-ops then.
C3_SilentNoOp == scUncaught = {}

\* ------------------------------------------------ claims of the legacy managers
\* C6: for every legacy manager, however often init() is called, its setup
\* steps have run at most once since the manager was last destroyed (or since
\* the page was loaded).
C6_InitIdempotent == \A m \in Managers : mgrSetupRuns[m] <= 1

\* C23: without IntersectionObserver a LazyLoader.init() that has run its
\* setup has completed with initialized = true, whatever lazy images, profile
\* image or module trigger elements the page contains.
C23_FallbackCompletes ==
    (~lazyPage.io /\ mgrSetupRuns["LazyLoader"] >= 1) => mgrInitialized["LazyLoader"]

\* ---------------------------------------------- claims of the EducationManager
\* C7: showDocumentPreview is called for a row only while the pointer is on the
\* row, at least 500 ms after the latest mouseenter on it and with no
\* mouseleave on it since; and no timer stays pending for a row the pointer
\* has left.
C7_HoverDelay ==
    /\ \A p \in eduPreviews :
          p.row \in DocRows =>
              /\ ~p.left
              /\ p.pointer = p.row
              /\ p.at - p.entered >= HoverDelay
    /\ \A t \in eduTimers : t.row \in DocRows => ~eduLeft[t.row]

\* a preview was shown after a full hover, and an earlier hover on another
\* document row was cut short by a mouseleave
C7_Witness ==
    \E p \in eduPreviews, r \in DocRows :
        /\ p.row \in DocRows
        /\ r # p.row
        /\ eduLeft[r]
        /\ eduEnteredAt[r] >= 0
        /\ eduEnteredAt[r] < p.entered

\* --------------------------------------------------- claims of the service worker
\* C8: for every fetch event, if some cache holds an entry for the request the
\* response is that cached entry and the network is not contacted; otherwise
\* the request goes to the network; in both cases the caches are left as they
\* were.
C8_CacheFirst ==
    [][swFetches' = swFetches + 1 =>
          LET u == swLast'.url
              cached == {e \in UNION {swCaches[n] : n \in CacheNames} : e.url = u}
          IN /\ cached # {} =>
                   /\ swLast'.source = "cache"
                   /\ \E e \in cached : swLast'.version = e.version
                   /\ swNetRequests' = swNetRequests
             /\ cached = {} =>
                   /\ swLast'.source = "network"
                   /\ swNetRequests' = swNetRequests + 1
             /\ swCaches' = swCaches]_vars

\* a request was answered from the cache with content older than the origin's,
\* after another request had gone to the network and was not cached
C8_Witness ==
    /\ swLast.source = "cache"
    /\ swLast.version < swOrigin
    /\ swNetRequests >= 1
    /\ CachesMatch(swCaches, "/manifest.json") = {}

\* ------------------------------------------ claims of the AccessibilityManager
\* C9 (as stated): right after init() on a page load, body is as it would be
\* had no earlier session happened: no high-contrast class, and reduced-motion
\* only by the system preference.
C9_NoPersistence ==
    a11yFresh => /\ ~bodyHighContrast
                 /\ bodyReducedMotion = prefersReducedMotion

\* C9 (amended): right after init() on a page load, body carries high-contrast
\* exactly if localStorage holds 'high-contrast' = 'true', and reduced-motion
\* exactly if the system prefers reduced motion or localStorage holds
\* 'reduced-motion' = 'true'; an item never set counts as not 'true'.
C9_PreferencesPersist ==
    a11yFresh => /\ bodyHighContrast = (lsHighContrast = "true")
                 /\ bodyReducedMotion =
                        (prefersReducedMotion \/ lsReducedMotion = "true")

\* a later session starts in high contrast because an earlier one toggled it
\* on, while reduced-motion, toggled off earlier, stays off
C9_Witness ==
    /\ a11yFresh
    /\ a11ySession > 1
    /\ bodyHighContrast
    /\ lsReducedMotion = "false"
    /\ ~bodyReducedMotion

\* ------------------------------------------------------ claims of highlightSkills
\* C10 (as stated): on the same page and search term the two implementations
\* leave the same elements highlighted.
C10_SameHighlights ==
    (skLegacy.ran /\ skModule.ran) => skLegacy = skModule

\* every item has a name element of its own kind with text and a progress
\* element of its own kind with a non-empty data-value, and nothing but the
\* items is highlighted
C10_WellFormedPage ==
    /\ \A i \in DOMAIN skItems :
          /\ skItems[i].text # <<>>
          /\ skItems[i].dataValue \notin {"null", ""}
          /\ \/ /\ skItems[i].kind = "tool-item"
                /\ skItems[i].nameClass = "tool-name"
                /\ skItems[i].progressClass = "skill-progress"
             \/ /\ skItems[i].kind = "language-item"
                /\ skItems[i].nameClass = "language-name"
                /\ skItems[i].progressClass = "language-progress"
    /\ ~skOtherHighlighted

\* C10 (amended): on a page where every item is complete in that sense and no
\* other element is highlighted, the two implementations leave the same
\* elements highlighted.
C10_SameOnWellFormed ==
    (skLegacy.ran /\ skModule.ran /\ C10_WellFormedPage) => skLegacy = skModule

\* both ran on a complete page with a term in other letter case: one item is
\* highlighted by both, another, highlighted before, is cleared by both
C10_Witness ==
    /\ skLegacy.ran /\ skModule.ran /\ C10_WellFormedPage
    /\ skTerm = <<"G", "O">>
    /\ \E i, j \in DOMAIN skItems :
          /\ skModule.items[i] /\ skLegacy.items[i]
          /\ skItems[j].highlighted /\ ~skModule.items[j] /\ ~skLegacy.items[j]

\* ------------------------------------------- claims of the build tool, continued
\* C16: after a build that reports success, every URL of the generated
\* worker's urlsToCache is served by a file the build has in dist, so that
\* cache.addAll can succeed.
C16_PrecacheComplete ==
    successReported =>
        \A i \in DOMAIN generatedUrlsToCache : ServedFile(generatedUrlsToCache[i]) \in dist

\* ------------------------------------------- claims of PortfolioApp, continued
\* C14: each call of initializeModules initialises the eligible modules one
\* after another, in non-decreasing priority with ties in declaration order:
\* accessibility is started first, every module init() is started only after
\* the one before it has settled, and tooltips is the last one started.
C14_PriorityOrder ==
    \A c \in InitCalls :
        LET declared(n) == CHOOSE i \in DOMAIN moduleConfigs : moduleConfigs[i].name = n
            configured == {moduleConfigs[i].name : i \in DOMAIN moduleConfigs}
            log == SelectSeq(initLog[c], LAMBDA e : e[2] \in configured)
            starts == SelectSeq(log, LAMBDA e : e[1] = "start")
            before(a, b) ==
                \/ moduleConfigs[declared(a)].priority < moduleConfigs[declared(b)].priority
                \/ /\ moduleConfigs[declared(a)].priority = moduleConfigs[declared(b)].priority
                   /\ declared(a) < declared(b)
        IN /\ \A i, j \in DOMAIN starts : i < j => before(starts[i][2], starts[j][2])
           /\ starts # <<>> => starts[1][2] = "accessibility"
           /\ \A i \in DOMAIN log :
                  IF log[i][1] = "start"
                  THEN i > 1 => log[i - 1][1] \in {"ok", "fail"}
                  ELSE i > 1 /\ log[i - 1] = <<"start", log[i][2]>>
           /\ ipc[c] \in {"modRet", "perf", "perfRet", "lazy", "lazyRet", "done"} =>
                  starts[Len(starts)][2] = "tooltips"

\* a finished init() on a page where all three priority-2 modules and both
\* priority-3 modules were eligible
C14_Witness ==
    \E c \in InitCalls :
        /\ ipc[c] = "done"
        /\ \A n \in {"animations", "ai-showcase", "mobile", "skills", "education"} :
               <<"ok", n>> \in Range(initLog[c])

\* C15: a module whose init() rejected is not entered in the modules map, the
\* modules after it are still initialised and init() still completes with
\* initialized = true; a name is in the map only with an instance whose init()
\* completed successfully.
C15_FailureIsolated ==
    /\ \A i \in DOMAIN modules :
           \E c \in InitCalls :
               /\ modules[i].inst = Instance(modules[i].name, <<"init", c>>)
               /\ <<"ok", modules[i].name>> \in Range(initLog[c])
    /\ \A c \in InitCalls : \A k \in DOMAIN initLog[c] :
           initLog[c][k][1] = "fail" =>
               \A i \in DOMAIN modules :
                   modules[i].inst # Instance(initLog[c][k][2], <<"init", c>>)
    /\ \A c \in InitCalls :
           ipc[c] = "done" =>
               /\ initialized
               /\ \A i \in DOMAIN moduleConfigs :
                      condition(moduleConfigs[i].name, config, isMobile) =>
                          <<"start", moduleConfigs[i].name>> \in Range(initLog[c])
               /\ config.performance => <<"start", "performance">> \in Range(initLog[c])
               /\ config.lazyLoading => <<"start", "lazyLoader">> \in Range(initLog[c])

\* init() has completed although accessibility's init() rejected; tooltips
\* was initialised after it
C15_Witness ==
    \E c \in InitCalls :
        /\ ipc[c] = "done" /\ initialized
        /\ <<"fail", "accessibility">> \in Range(initLog[c])
        /\ <<"ok", "tooltips">> \in Range(initLog[c])
        /\ ~MapHas(modules, "accessibility")

\* C17: across the device-type changes handled by handleResize, a change
\* arriving while an earlier MobileManager.init() is still pending included,
\* once every pending initialisation has finished no module is registered
\* under 'mobile' if the last change was to desktop.  (One init() call, no
\* destroy(), a browser without touch.)
C17_NoStaleMobile ==
    ( /\ ~isMobile
      /\ dtcPending = {} /\ resizePending = {}
      /\ \A c \in InitCalls : ~InitInFlight(c)
      /\ ipc["script"] = "idle"
      /\ \A d \in DestroyCalls : dpc[d] = "idle"
      /\ ~env.hasTouch )
    => ~MapHas(modules, "mobile")

\* ---------------------------------------------- claims of the education overlays
\* C19: whenever the document preview overlay carries 'show', the iframe's src
\* is the file URL of the most recent showDocumentPreview call, however show,
\* hide and the delayed src-clearing timer interleave.
C19_ShownFrameHasUrl == ovDocShow => ovFrameSrc = ovLastUrl

\* C20: body's overflow is 'hidden' exactly when at least one of the two
\* education overlays is shown.
C20_OverflowIffShown == (ovOverflow = "hidden") <=> (ovDocShow \/ ovInfoShow)

\* ---------------------------------------------------------- claims of debounce
\* C18: a function made by debounce(func, wait) runs func only when at least
\* wait ms have passed since the most recent call, with the arguments of that
\* call, and once per burst of calls: between two runs there is a new call, a
\* call is either still waiting on one pending timer or has been answered by a
\* run, so a burst of events closer together than 250 ms gives one run, after
\* the last event.
C18_Debounce ==
    ~dbKind.immediate =>
        /\ \A i \in DOMAIN dbRuns :
               /\ dbRuns[i].at - dbRuns[i].lastCallAt >= DebounceWait
               /\ dbRuns[i].args = dbRuns[i].lastArgs
               /\ \A j \in DOMAIN dbRuns : i < j => dbRuns[i].callsBefore < dbRuns[j].callsBefore
        /\ Cardinality(dbTimers) <= 1
        /\ LET answered == IF dbRuns = <<>> THEN 0 ELSE dbRuns[Len(dbRuns)].callsBefore
           IN (dbTimers # {}) <=> (Len(dbCalls) > answered)

\* three calls, the first two less than wait apart, answered by one run after
\* the second and one after the third
C18_Witness ==
    /\ ~dbKind.immediate
    /\ Len(dbCalls) = 3 /\ dbCalls[2].at - dbCalls[1].at < DebounceWait
    /\ dbCalls[1].args # dbCalls[2].args
    /\ Len(dbRuns) = 2 /\ dbRuns[1].callsBefore = 2 /\ dbRuns[2].callsBefore = 3

\* ------------------------------------------------ claims of the TooltipManager
\* C13: after positionTooltip a tooltip narrower than the viewport lies within
\* it horizontally: left >= 0 and right <= window.innerWidth, for control
\* tooltips and bar tooltips alike.
C13_InsideViewport ==
    (ttShown /\ ttCase.tooltipWidth < ttCase.innerWidth) =>
        /\ TooltipRect(ttCase, ttStyle).left >= 0
        /\ TooltipRect(ttCase, ttStyle).right <= ttCase.innerWidth

\* ----------------------------------- claims of the AccessibilityManager module
\* C12: destroy() undoes init(): after init() followed by destroy() the
\* document has none of the elements init inserted, so over any number of
\* init/destroy cycles at most one element with each of these ids exists.
C12_DestroyUndoesInit ==
    LET cycles == \A i \in DOMAIN amHistory :
                      amHistory[i] = IF i % 2 = 1 THEN "init" ELSE "destroy"
    IN cycles =>
           /\ \A id \in InsertedIds : amDoc[id] <= 1
           /\ (amHistory # <<>> /\ amHistory[Len(amHistory)] = "destroy") =>
                  \A id \in InsertedIds : amDoc[id] = 0

\* ---------------------------------------- claims of the progress bar animations
\* C11: when AnimationManager and SkillsManager animate the same bar (whose
\* inline width is its data-value), then however their intersection and
\* animation-frame callbacks interleave, once all pending callbacks have run
\* the bar's width is its target value, never 0%.
C11_FinalWidthIsTarget ==
    ( /\ pbPage.dataValue # <<>>
      /\ pbPage.inlineWidth = <<pbPage.dataValue[1], "%">>
      /\ pbRaf = <<>> /\ pbTimers = {} )
    => pbWidth = <<pbPage.dataValue[1], "%">>

\* ------------------------------------------- claims of LazyLoader module loading
\* C21: between init() and destroy(), loadModule starts at most one script
\* load for each module name, however often it is called; a queued module,
\* also one whose script failed to load, stays in moduleQueue and is not
\* requested again.
C21_OneLoadPerModule ==
    [][/\ \A n \in DOMAIN lazyModules : ldCalls'[n] <= 1
       /\ \A n \in ldQueue :
              (ldQueue' # {}) =>
                  /\ n \in ldQueue'
                  /\ ldCalls'[n] = ldCalls[n]
                  /\ ldScript'[lazyModules[n]] # "none"
                  /\ ldScript[lazyModules[n]] = "failed" =>
                         ldScript'[lazyModules[n]] = "failed"]_vars

\* loadModule was called three times for a module whose script failed
C21_Witness ==
    \E n \in DOMAIN lazyModules :
        /\ ldAsked[n] >= 3 /\ ldCalls[n] = 1
        /\ ldScript[lazyModules[n]] = "failed" /\ n \in ldQueue

\* C22: the promise of loadScript(src) resolves only after the script at src
\* has finished loading, also when another load of src is in flight or its
\* script element has failed.
C22_ResolvedMeansLoaded == \A r \in ldResolved : r.state = "loaded"

\* ------------------------------------------------------ claims of the focus trap
\* C24: while a focus trap is active, after any Tab or Shift+Tab presses made
\* since it became active, focus is on a focusable element inside the trapped
\* container.
C24_FocusStaysInside ==
    (ftActive /\ ftKeys >= 1) => ftFocus \in ftContainer

\* C25: no keydown listener of the ES-module AccessibilityManager raises an
\* error, also for keys pressed after destroy().
C25_KeydownAfterDestroy == ftErrors = 0

\* ---------------------------------------------------- claims of touch handling
\* C26: a touch that has ended produced a click on its element only if it was
\* a quick tap (its own duration under 500 ms and its own displacement under
\* 10 px), and then exactly one click.
C26_ClickOnlyOnQuickTap ==
    \A el \in TouchElements :
        (tcEnded[el].done /\ tcClicks[el] > 0) =>
            /\ tcEnded[el].duration < TapDuration
            /\ tcEnded[el].moved < TapDistance
            /\ tcClicks[el] = 1

\* ------------------------------------------------ claims of education row clicks
\* C28: after any device-type changes and addEducationItem calls every row in
\* the document has exactly one set of handlers, and the latest click on a
\* document row opened the document exactly once.
C28_OneHandlerSet ==
    /\ \A r \in rcRows : rcListeners[r] = 1
    /\ rcClicked # "none" => rcOpened = 1

\* -------------------------------------------- claims of keyboard activation
\* C27: with both keyboard-support modules of the page initialised, the latest
\* Enter or Space keypress on a skill control or an education row produced
\* exactly one click on that element.
C27_OneClickPerKeypress ==
    (/\ kbLast.mods = KeyStacks[kbStack]
     /\ kbLast.key \in ActivationKeys
     /\ kbLast.el \in {"skill-control", "education-row"}) => kbLast.clicks = 1

\* ------------------------------------ claims of the AnimationManager observers
\* C29: while the page is hidden no observer created by AnimationManager is
\* connected, and at any time at most one connected observer exists per kind.
C29_NoObserverWhileHidden ==
    \A k \in ObserverKinds :
        /\ obHidden => (~obCurrent[k] /\ obReplaced[k] = 0)
        /\ obReplaced[k] + (IF obCurrent[k] THEN 1 ELSE 0) <= 1

\* -------------------------------------------- claims of the skill value tooltip
\* C30: during the 800 ms that follow the latest click on a control its value
\* tooltip is visible, and once no reset timer is pending it is hidden.
C30_VisibleFor800ms ==
    /\ (svLastClick # NoClick /\ svNow - svLastClick < ResetDelay) => svVisible
    /\ (svLastClick # NoClick /\ svTimers = {}) => ~svVisible

====
